---- MODULE Spec2Model ----
(***************************************************************************)
(* Mood-driven scene orchestration of the Agroforst jukebox:               *)
(* MoodManager.applyMood, the LightManager / EffectManager /               *)
(* LandscapeManager it drives, and the SceneManager render loop.           *)
(*                                                                         *)
(* Numbers are fixed point.  Unless said otherwise a quantity is held in   *)
(* thousandths (intensity 0.1 is 100, position 80 is 80000); fog density   *)
(* is held in 1/10000; time is held in milliseconds; a phase is held in    *)
(* thousandths of a full turn.                                             *)
(***************************************************************************)
EXTENDS Integers, Sequences, FiniteSets, TLC

VARIABLES
  moodStyles,       \* the catalog object mood-definitions.ts exports
  debug,            \* MoodDebugSystem: enabled, originalMood, the expiry timers
  currentMood,      \* MoodManager.currentMood: null or a reference to a config
  scene,            \* THREE.Scene: background, fog, children
  lights,           \* LightManager.lights (the light store)
  sunMesh,          \* LightManager.sunMesh
  particleSystems,  \* EffectManager.particleSystems
  bloomPass,        \* EffectManager.bloomPass
  composer,         \* EffectManager.composer: number of render() calls served
  landscape,        \* LandscapeManager: ground, trees, crops, currentVegConfig
  camera,           \* SceneManager.camera as CameraManager drives it
  ui,               \* UIManager: the colour property set on popup and fab
  audio,            \* AudioManager: audioState and the Howls still loading
  rfid,             \* RFIDMusicManager: lookup maps, selection, input buffer
  bus,              \* gameEventBus: listeners, onceListeners, calls received
  assets,           \* AssetManager: cache, loads in flight, loadAsset calls,
                    \* and the landscape requests waiting for them
  clock,            \* SceneManager.clock
  rafPending,       \* callbacks queued with requestAnimationFrame
  callLog,          \* calls made by the handler that ran last
  lastOp,           \* which handler ran last, with what input and outcome
  ops               \* how many handlers have run

vars == <<moodStyles, debug, currentMood, scene, lights, sunMesh,
          particleSystems, bloomPass,
          composer, landscape, camera, ui, audio, rfid, bus, assets, clock,
          rafPending,
          callLog, lastOp, ops>>

-----------------------------------------------------------------------------
(* Bounds of the exploration *)

\* a particle system is built with at most this many particles
MaxParticles == 1
\* a run is followed for this many handler executions
MaxOps == 3

\* a run of the RFID and audio managers is followed for this many handler
\* executions (scans, keystrokes, selections, load callbacks)
MaxSongOps == 4

\* a run of the popup is followed for this many handler calls
MaxUiOps == 6

\* a run of asset loads and landscape requests is followed for this many steps
MaxAssetOps == 5

-----------------------------------------------------------------------------
(* Values *)

Min(a, b) == IF a < b THEN a ELSE b

\* a field that is either a scalar or an array (number | number[], ...)
Scalar(x) == [isArray |-> FALSE, v |-> <<x>>]
Arr(seq) == [isArray |-> TRUE, v |-> seq]

\* THREE.Color as the style string, the hex number or the HSL triple it was
\* last set from
Css(style) == [css |-> style, hex |-> -1, h |-> -1, s |-> -1, l |-> -1]
Hex(n) == [css |-> "", hex |-> n, h |-> -1, s |-> -1, l |-> -1]
Hsl(hh, ss, ll) == [css |-> "", hex |-> -1, h |-> hh, s |-> ss, l |-> ll]

\* new THREE.Color(): white
White == Hex(16777215)

\* style strings Color.setStyle rejects (it warns and leaves the colour as is)
InvalidStyles == {"##FFFF00"}

\* THREE.Color.set(style) on an existing colour
ColorSet(old, style) == IF style \in InvalidStyles THEN old ELSE Css(style)

\* new THREE.Color(style)
NewColor(style) == ColorSet(White, style)

\* THREE.MathUtils.lerp(x, y, t) = (1 - t) * x + t * y, t in thousandths;
\* computed as x + t * (y - x), which stays within 32 bits
Lerp(x, y, t) == x + (t * (y - x)) \div 1000

\* the values Math.random() is drawn from, in thousandths: the ends of [0, 1)
RandomDraws == <<0, 999>>

\* the n values a run of Math.random() calls returns: the stream starts at
\* any of the RandomDraws and either stays there or alternates
RandomStreams(n) ==
  {[i \in 1 .. n |-> RandomDraws[((a + b * (i - 1)) % Len(RandomDraws)) + 1]] :
     a \in 0 .. (Len(RandomDraws) - 1), b \in {0, 1}}

-----------------------------------------------------------------------------
(* The mood catalog, configs/mood-definitions.ts *)

Harmonisch ==
  [name |-> "Harmonisch", skyColor |-> "#87CEEB",
   fog |-> [color |-> "#87CEEB", density |-> 10],
   ambient |-> [color |-> "#ffffff", intensity |-> 100],
   keyLight |-> [color |-> "##FFFF00", intensity |-> 3000,
                 position |-> <<-100000, 150000, 50000>>],
   sun |-> [visible |-> TRUE, color |-> "#FFFF4F"],
   groundColor |-> "#7CFC00",
   vegetation |-> [treeColor |-> "#228B22", cropColor |-> "#ADFF2F"],
   bloom |-> [threshold |-> 850, strength |-> 800, radius |-> 500],
   particles |-> Scalar(
     [count |-> 200,
      material |-> [size |-> Scalar(2000), textureType |-> "sparkle",
                    blending |-> "additive", depthWrite |-> FALSE,
                    opacity |-> Scalar(800), color |-> Scalar("#FFFFDD")],
      behavior |-> [spawnArea |-> <<800, 200, 800>>,
                    velocity |-> <<0, 100, 0>>, direction |-> "up"]]),
   ui |-> [borderColor |-> "#FFFFAA", shadowColor |-> "#FFFF00", shadowBlur |-> "30"]]

\* Array.from({ length: 8 }, (_, i) => ...): element i, 0-based
DiscoSpot(i) ==
  [name |-> "disco_spot_" \o ToString(i), type |-> "spot",
   color |-> Scalar(Hsl(i * 125, 1000, 500)),
   intensity |-> Scalar(300000),
   angle |-> 393, penumbra |-> 500, decay |-> 2000,
   position |-> Scalar(<<0, 80000, 0>>),
   animation |->
     [enabled |-> TRUE, mode |-> "disco",
      params |-> [disco |-> [rotationSpeed |-> <<2000 + i * 300, 3000 + i * 200>>,
                             radius |-> 120000 + i * 15000,
                             heightOffset |-> i * 5000,
                             targetMovement |-> TRUE]]]]

Kooperativ ==
  [name |-> "Kooperativ", skyColor |-> "#220033",
   fog |-> [color |-> "#220033", density |-> 20],
   ambient |-> [color |-> "#ffffff", intensity |-> 600],
   keyLight |-> [color |-> "#FFD700", intensity |-> 3000,
                 position |-> <<-150000, 80000, 0>>],
   sun |-> [visible |-> TRUE, color |-> "#FFD700"],
   groundColor |-> "#4F7039",
   vegetation |-> [pulsingColor |-> TRUE, treeColor |-> "#ff00ff", cropColor |-> "#00ffff"],
   bloom |-> [threshold |-> 100, strength |-> 1000, radius |-> 800],
   particles |-> Scalar(
     [count |-> 5000,
      material |-> [size |-> Scalar(1500), textureType |-> "sparkle",
                    blending |-> "additive", depthWrite |-> FALSE,
                    opacity |-> Scalar(1000), color |-> Scalar("rainbow")],
      behavior |-> [spawnArea |-> <<800, 200, 800>>,
                    velocity |-> <<0, 50, 0>>, direction |-> "up"]]),
   dynamicLights |-> [k \in 1 .. 8 |-> DiscoSpot(k - 1)],
   ui |-> [borderColor |-> "rainbow", shadowColor |-> "rainbow", shadowBlur |-> "40"]]

Neutral ==
  [name |-> "Neutral", skyColor |-> "#B0C4DE",
   fog |-> [color |-> "#B0C4DE", density |-> 20],
   ambient |-> [color |-> "#aaaaaa", intensity |-> 700],
   keyLight |-> [color |-> "#ffffff", intensity |-> 2500,
                 position |-> <<50000, 100000, 50000>>],
   sun |-> [visible |-> FALSE, color |-> "#FFFFFF"],
   groundColor |-> "#8FBC8F",
   vegetation |-> [treeColor |-> "#556B2F", cropColor |-> "#6B8E23"],
   bloom |-> [threshold |-> 900, strength |-> 500, radius |-> 500],
   ui |-> [borderColor |-> "#CCCCCC", shadowColor |-> "#FFFFFF", shadowBlur |-> "20"]]

Distanziert ==
  [name |-> "Distanziert", skyColor |-> "#483D8B",
   fog |-> [color |-> "#483D8B", density |-> 30],
   ambient |-> [color |-> "#483D8B", intensity |-> 700],
   keyLight |-> [color |-> "#ffccaa", intensity |-> 2200,
                 position |-> <<-840000, 20000, 10000>>],
   sun |-> [visible |-> TRUE, color |-> "#ffccaa"],
   groundColor |-> "#0E1C00",
   vegetation |-> [treeColor |-> "#2F4F4F", cropColor |-> "#556B2F"],
   bloom |-> [threshold |-> 500, strength |-> 1200, radius |-> 800],
   particles |-> Scalar(
     [count |-> 4000,
      material |-> [size |-> Scalar(800), textureType |-> "sparkle",
                    blending |-> "normal", depthWrite |-> TRUE,
                    opacity |-> Scalar(500), color |-> Scalar("#AAAAFF")],
      behavior |-> [spawnArea |-> <<800, 200, 800>>,
                    velocity |-> <<0, -2000, 0>>, direction |-> "down"]]),
   ui |-> [borderColor |-> "#ffccaa", shadowColor |-> "#FF4500", shadowBlur |-> "35"]]

Spannung ==
  [name |-> "Spannung", skyColor |-> "#200000",
   fog |-> [color |-> "#570066", density |-> 40],
   ambient |-> [color |-> "#400000", intensity |-> 5],
   keyLight |-> [color |-> "#B00000", intensity |-> 1500,
                 position |-> <<0, 100000, 0>>],
   sun |-> [visible |-> TRUE, color |-> "#ff0000"],
   groundColor |-> "#008556",
   vegetation |-> [treeColor |-> "#1a0000", cropColor |-> "#100000",
                   emissiveGlow |-> TRUE, emissiveColor |-> "#FF0000"],
   bloom |-> [threshold |-> 100, strength |-> 2000, radius |-> 1200],
   dynamicLights |-> <<
     [name |-> "dynamic_strobe", type |-> "point",
      color |-> Arr(<<Hex(16777215), Hex(16776960)>>),
      intensity |-> Arr(<<20000, 60000>>),
      angle |-> 1047, penumbra |-> 100, decay |-> 600,
      position |-> Scalar(<<10000, 80000, 0>>)] >>,
   particles |-> Scalar(
     [count |-> 2500,
      material |-> [size |-> Scalar(4000), textureType |-> "sparkle",
                    blending |-> "additive", depthWrite |-> FALSE,
                    opacity |-> Scalar(500), color |-> Scalar("#FF4500")],
      behavior |-> [spawnArea |-> <<800, 200, 800>>,
                    velocity |-> <<0, 200, 0>>, direction |-> "up"]]),
   ui |-> [borderColor |-> "#FF4500", shadowColor |-> "#FF0000", shadowBlur |-> "40"]]

Konflikt ==
  [name |-> "Konflikt", skyColor |-> "#050505",
   fog |-> [color |-> "#110000", density |-> 50],
   ambient |-> [color |-> "#220000", intensity |-> 1500],
   keyLight |-> [color |-> "#009900", intensity |-> 1000,
                 position |-> <<-200000, 30000, 0>>],
   sun |-> [visible |-> TRUE, color |-> "#ffffff"],
   groundColor |-> "#333333",
   vegetation |-> [treeColor |-> "#444444", cropColor |-> "#555555"],
   bloom |-> [threshold |-> 0, strength |-> 3000, radius |-> 800],
   dynamicLights |-> <<
     [name |-> "conflict_strobe", type |-> "spot",
      color |-> Scalar(Hex(16777215)),
      intensity |-> Scalar(100000),
      angle |-> 1047, penumbra |-> 0, decay |-> 400,
      position |-> Scalar(<<0, 150000, 0>>),
      animation |->
        [enabled |-> TRUE, mode |-> "strobe",
         params |-> [strobe |-> [triggerChance |-> 150, maxIntensity |-> 3000000,
                                 fadeSpeed |-> 400,
                                 colors |-> <<16777215, 4456448>>]]]] >>,
   ui |-> [borderColor |-> "#FFFFFF", shadowColor |-> "#FF0000", shadowBlur |-> "50"]]

Krieg ==
  [name |-> "Krieg", skyColor |-> "#1A0000",
   fog |-> [color |-> "#FF4500", density |-> 10],
   ambient |-> [color |-> "#FF0000", intensity |-> 300],
   keyLight |-> [color |-> "#FF6600", intensity |-> 2500,
                 position |-> <<200000, 50000, -100000>>],
   sun |-> [visible |-> FALSE, color |-> "#ff0000"],
   groundColor |-> "#330000",
   vegetation |-> [treeColor |-> "#4A0000", cropColor |-> "#661100",
                   emissiveGlow |-> TRUE, emissiveColor |-> "#FF6600"],
   bloom |-> [threshold |-> 0, strength |-> 3500, radius |-> 1800],
   dynamicLights |-> <<
     [name |-> "lightning_strobe", type |-> "spot",
      color |-> Scalar(Hex(16777215)),
      intensity |-> Scalar(200000),
      angle |-> 1047, penumbra |-> 100, decay |-> 800,
      position |-> Scalar(<<0, 150000, 0>>),
      animation |->
        [enabled |-> TRUE, mode |-> "strobe",
         params |-> [strobe |-> [triggerChance |-> 50, maxIntensity |-> 4000000,
                                 fadeSpeed |-> 200,
                                 colors |-> <<16777215, 8900331, 16777215>>]]]],
     [name |-> "fire_explosion", type |-> "point",
      color |-> Scalar(Hex(16729344)),
      intensity |-> Scalar(150000),
      distance |-> 400000, decay |-> 1500,
      position |-> Scalar(<<100000, 40000, -80000>>),
      animation |->
        [enabled |-> TRUE, mode |-> "explosion",
         params |-> [explosion |-> [triggerChance |-> 80, intensityMultiplier |-> 3500,
                                    fadeSpeed |-> 150, randomPosition |-> TRUE,
                                    positionRange |-> <<200, 60, 200>>]]]],
     [name |-> "war_pulse", type |-> "point",
      color |-> Scalar(Hex(16711680)),
      intensity |-> Scalar(80000),
      distance |-> 300000, decay |-> 2000,
      position |-> Scalar(<<-120000, 60000, 100000>>),
      animation |->
        [enabled |-> TRUE, mode |-> "pulse",
         params |-> [pulse |-> [frequency |-> 1200, intensityRange |-> <<200, 4000>>,
                                phaseOffset |-> 0]]]] >>,
   particles |-> Arr(<<
     [name |-> "smoke", count |-> 500,
      material |-> [size |-> Scalar(60000), textureType |-> "smoke",
                    blending |-> "normal", depthWrite |-> FALSE,
                    opacity |-> Scalar(300), color |-> Scalar("#220000")],
      behavior |-> [spawnArea |-> <<600, 200, 1000>>,
                    velocity |-> <<100, 150, 100>>, direction |-> "up"]],
     [name |-> "fire", count |-> 1500,
      material |-> [size |-> Scalar(1500), textureType |-> "sparkle",
                    blending |-> "additive", depthWrite |-> FALSE,
                    opacity |-> Scalar(1000), color |-> Arr(<<"#FF0000">>)],
      behavior |-> [spawnArea |-> <<900, 150, 900>>,
                    velocity |-> <<0, 600, 0>>, direction |-> "up"]],
     [name |-> "embers", count |-> 500,
      material |-> [size |-> Scalar(2200), textureType |-> "sparkle",
                    blending |-> "additive", depthWrite |-> FALSE,
                    opacity |-> Scalar(800), color |-> Scalar("#FF4500")],
      behavior |-> [spawnArea |-> <<1200, 400, 1200>>,
                    velocity |-> <<200, 300, 200>>, direction |-> "up"]] >>),
   ui |-> [borderColor |-> "#FF0000", shadowColor |-> "#FF6600", shadowBlur |-> "80"]]

Groove ==
  [name |-> "Groove", skyColor |-> "#2d1b69",
   fog |-> [color |-> "#2d1b69", density |-> 25],
   ambient |-> [color |-> "#ffd700", intensity |-> 700],
   keyLight |-> [color |-> "#ffd700", intensity |-> 4000,
                 position |-> <<0, 120000, 100000>>],
   sun |-> [visible |-> TRUE, color |-> "#ffd700"],
   groundColor |-> "#4a0080",
   vegetation |-> [treeColor |-> "#8a2be2", cropColor |-> "#ffd700", pulsingColor |-> TRUE],
   bloom |-> [threshold |-> 400, strength |-> 2200, radius |-> 900],
   particles |-> Scalar(
     [count |-> 3000,
      material |-> [size |-> Scalar(2500), textureType |-> "sparkle",
                    blending |-> "additive", depthWrite |-> FALSE,
                    opacity |-> Scalar(800), color |-> Scalar("#ffd700")],
      behavior |-> [spawnArea |-> <<600, 150, 600>>,
                    velocity |-> <<0, 80, 0>>, direction |-> "up"]]),
   dynamicLights |-> <<
     [name |-> "groove_spot_1", type |-> "spot",
      color |-> Scalar(Hex(16766720)),
      intensity |-> Scalar(150000),
      angle |-> 524, penumbra |-> 300, decay |-> 1800,
      position |-> Scalar(<<-100000, 80000, 50000>>)],
     [name |-> "groove_spot_2", type |-> "spot",
      color |-> Scalar(Hex(9055202)),
      intensity |-> Scalar(150000),
      angle |-> 524, penumbra |-> 300, decay |-> 1800,
      position |-> Scalar(<<100000, 80000, -50000>>)] >>,
   ui |-> [borderColor |-> "#ffd700", shadowColor |-> "#8a2be2", shadowBlur |-> "35"]]

\* the four pulse lights of Transzendent differ in these fields only
EtherealPoint(n, col, int, dist, dec, pos, freq, range, phase) ==
  [name |-> "ethereal_point_" \o ToString(n), type |-> "point",
   color |-> Scalar(Hex(col)),
   intensity |-> Scalar(int),
   distance |-> dist, decay |-> dec,
   position |-> Scalar(pos),
   animation |->
     [enabled |-> TRUE, mode |-> "pulse",
      params |-> [pulse |-> [frequency |-> freq, intensityRange |-> range,
                             phaseOffset |-> phase]]]]

Transzendent ==
  [name |-> "Transzendent", skyColor |-> "#000011",
   fog |-> [color |-> "#110022", density |-> 40],
   ambient |-> [color |-> "#6a4c93", intensity |-> 1200],
   keyLight |-> [color |-> "#ffd700", intensity |-> 2800,
                 position |-> <<0, 180000, 0>>],
   sun |-> [visible |-> TRUE, color |-> "#ffd700"],
   groundColor |-> "#2a1b5d",
   vegetation |-> [treeColor |-> "#8a2be2", cropColor |-> "#00ffff",
                   emissiveGlow |-> TRUE, emissiveColor |-> "#ff69b4",
                   pulsingColor |-> TRUE],
   bloom |-> [threshold |-> 500, strength |-> 1000, radius |-> 1500],
   particles |-> Arr(<<
     [name |-> "souls", count |-> 800,
      material |-> [size |-> Arr(<<6000, 22000>>), textureType |-> "sparkle",
                    blending |-> "additive", depthWrite |-> FALSE,
                    opacity |-> Arr(<<200, 500>>),
                    color |-> Arr(<<"#ff69b4", "#ffc0cb", "#da70d6">>)],
      behavior |-> [spawnArea |-> <<600, 400, 600>>,
                    velocity |-> <<100, 40, 10>>, direction |-> "up"]],
     [name |-> "stars", count |-> 3000,
      material |-> [size |-> Arr(<<1000, 5000>>), textureType |-> "sparkle",
                    blending |-> "additive", depthWrite |-> FALSE,
                    opacity |-> Arr(<<300, 800>>),
                    color |-> Arr(<<"#e6e6fa", "#b19cd9", "#dda0dd", "#ffd700">>)],
      behavior |-> [spawnArea |-> <<800, 300, 800>>,
                    velocity |-> <<10, 50, 0>>, direction |-> "up"]] >>),
   dynamicLights |-> <<
     EtherealPoint(1, 16738740, 42000, 480000, 3000, <<-80000, 60000, 40000>>,
                   800, <<500, 1500>>, 0),
     EtherealPoint(2, 65535, 27000, 260000, 3200, <<60000, 90000, -60000>>,
                   1200, <<600, 1400>>, 1047),
     EtherealPoint(3, 16766720, 45000, 300000, 2800, <<0, 120000, 80000>>,
                   600, <<600, 1400>>, 1571),
     EtherealPoint(4, 9055202, 25000, 240000, 3500, <<-60000, 80000, -40000>>,
                   1500, <<500, 1500>>, 3142) >>,
   ui |-> [borderColor |-> "#ffd700", shadowColor |-> "#ff69b4", shadowBlur |-> "40"]]

\* the object literal of export const moodStyles: Record<string, MoodConfig>
moodDefinitions ==
  [n \in {"Harmonisch", "Kooperativ", "Neutral", "Distanziert", "Spannung",
          "Konflikt", "Krieg", "Groove", "Transzendent"} |->
     CASE n = "Harmonisch" -> Harmonisch
       [] n = "Kooperativ" -> Kooperativ
       [] n = "Neutral" -> Neutral
       [] n = "Distanziert" -> Distanziert
       [] n = "Spannung" -> Spannung
       [] n = "Konflikt" -> Konflikt
       [] n = "Krieg" -> Krieg
       [] n = "Groove" -> Groove
       [] n = "Transzendent" -> Transzendent]

CatalogNames == DOMAIN moodDefinitions

\* moodStyles is a plain object literal, so moodStyles[key] also finds the
\* members it inherits from Object.prototype; for 'constructor' that is the
\* function Object (own properties: name, length), which is truthy
ObjectPrototypeMembers == [k \in {"constructor"} |-> [name |-> "Object", length |-> 1000]]

Undefined == [isUndefined |-> TRUE]
Null == [isNull |-> TRUE]

\* the JavaScript expression moodStyles[moodName], catalog being moodStyles
LookupIn(catalog, moodName) ==
  IF moodName \in DOMAIN catalog THEN catalog[moodName]
  ELSE IF moodName \in DOMAIN ObjectPrototypeMembers THEN ObjectPrototypeMembers[moodName]
  ELSE Undefined

\* moodStyles[moodName] between two handlers
Lookup(moodName) == LookupIn(moodStyles, moodName)

\* JavaScript truthiness of a looked-up value or of currentMood
Truthy(x) == "isUndefined" \notin DOMAIN x /\ "isNull" \notin DOMAIN x

Has(obj, field) == field \in DOMAIN obj

\* first element when the field is an array, the value itself otherwise:
\* Array.isArray(x) ? x[0] : x
FirstOf(field) == field.v[1]

\* a reference to the object moodStyles[key] evaluates to
Ref(key) == [key |-> key]

\* a reference to a config object that is no longer a property of moodStyles
Detached(config) == [obj |-> config]

\* the object a reference (or null) points at
DerefIn(catalog, ref) ==
  IF ~Truthy(ref) THEN ref
  ELSE IF "obj" \in DOMAIN ref THEN ref.obj
  ELSE LookupIn(catalog, ref.key)

Deref(ref) == DerefIn(moodStyles, ref)

-----------------------------------------------------------------------------
(* Trigonometry in fixed point *)

\* sin of u thousandths of a turn, 0 <= u <= 500, in thousandths (Bhaskara)
SinHalfTurn(u) == (16000 * u * (500 - u)) \div (1250000 - 4 * u * (500 - u))

\* Math.sin(2 * PI * p / 1000) in thousandths
SinTurn(p) ==
  LET m == p % 1000
  IN IF m <= 500 THEN SinHalfTurn(m) ELSE 0 - SinHalfTurn(m - 500)

\* radians (thousandths) to thousandths of a turn
RadToTurn(a) == (a * 1000) \div 6283

\* Math.sin(a), Math.cos(a) for a in thousandths of a radian
Sin(a) == SinTurn(RadToTurn(a))
Cos(a) == SinTurn(RadToTurn(a) + 250)

-----------------------------------------------------------------------------
(* THREE.Scene *)

Obj(kind, name) == [kind |-> kind, name |-> name]

\* Object3D.add: append the child
SceneAdd(children, obj) == Append(children, obj)

\* Object3D.remove: drop the child if it is there
SceneRemove(children, obj) ==
  IF \E i \in 1 .. Len(children) : children[i] = obj
  THEN LET i == CHOOSE j \in 1 .. Len(children) :
                  children[j] = obj /\ \A k \in 1 .. (j - 1) : children[k] # obj
       IN SubSeq(children, 1, i - 1) \o SubSeq(children, i + 1, Len(children))
  ELSE children

-----------------------------------------------------------------------------
(* The call log *)

\* one call made by a handler: what was called, the name of the mood config
\* it was given ("" when none) and the time it was given (-1 when none)
Call(what, moodName, time) == [call |-> what, mood |-> moodName, time |-> time]

Logged(w, what, moodName, time) ==
  [w EXCEPT !.log = Append(@, Call(what, moodName, time))]

\* this.scene.add(obj) / this.scene.remove(obj), logged
Added(w, obj) ==
  [w EXCEPT !.scene.children = SceneAdd(@, obj),
            !.log = Append(@, Call("scene.add:" \o obj.kind, obj.name, -1))]

Removed(w, obj) ==
  [w EXCEPT !.scene.children = SceneRemove(@, obj),
            !.log = Append(@, Call("scene.remove:" \o obj.kind, obj.name, -1))]

-----------------------------------------------------------------------------
(* LightManager (the refactored class, LightManager.ts:207-506) *)

AmbientLight(color, intensity) ==
  [type |-> "ambient", color |-> color, intensity |-> intensity]

DirectionalLight(color, intensity) ==
  [type |-> "directional", color |-> color, intensity |-> intensity,
   position |-> <<0, 1000, 0>>, castShadow |-> FALSE, target |-> <<0, 0, 0>>]

SpotLight(color, intensity, distance, angle, penumbra, decay) ==
  [type |-> "spot", color |-> color, intensity |-> intensity,
   distance |-> distance, angle |-> angle, penumbra |-> penumbra, decay |-> decay,
   position |-> <<0, 1000, 0>>, castShadow |-> FALSE, target |-> <<0, 0, 0>>]

PointLight(color, intensity, distance, decay) ==
  [type |-> "point", color |-> color, intensity |-> intensity,
   distance |-> distance, decay |-> decay, position |-> <<0, 1000, 0>>]

\* the store after LightManager.init()
InitialLights ==
  [k \in {"ambient", "keyLight"} |->
     IF k = "ambient" THEN AmbientLight(White, 100)
     ELSE [DirectionalLight(White, 1000) EXCEPT !.castShadow = TRUE]]

InitialSunMesh == [visible |-> TRUE, color |-> Hex(16776960), position |-> <<0, 0, 0>>]

\* what LightManager.init() adds to the scene
InitialLightChildren ==
  <<Obj("light", "ambient"), Obj("light", "keyLight"), Obj("target", "keyLight"),
    Obj("mesh", "sunMesh")>>

\* cfg.field || fallback
OrDefault(cfg, field, fallback) ==
  IF Has(cfg, field) /\ cfg[field] # 0 THEN cfg[field] ELSE fallback

\* variant: of a pair the light gets the last element
NewDynamicLight_LastOf(lightConfig) ==
  LET baseIntensity == lightConfig.intensity.v[Len(lightConfig.intensity.v)]
      color == FirstOf(lightConfig.color)
      basePosition == lightConfig.position.v[Len(lightConfig.position.v)]
  IN IF lightConfig.type = "spot"
     THEN [SpotLight(color, baseIntensity, 1000000,
                     OrDefault(lightConfig, "angle", 1047),
                     OrDefault(lightConfig, "penumbra", 100),
                     OrDefault(lightConfig, "decay", 1000))
             EXCEPT !.position = basePosition, !.castShadow = TRUE]
     ELSE [PointLight(color, baseIntensity,
                      OrDefault(lightConfig, "distance", 1000000),
                      OrDefault(lightConfig, "decay", 1000))
             EXCEPT !.position = basePosition]

\* the light one DynamicLightConfig creates (createDynamicLights, one element)
NewDynamicLight(lightConfig) ==
  LET baseIntensity == FirstOf(lightConfig.intensity)
      color == FirstOf(lightConfig.color)
      basePosition == FirstOf(lightConfig.position)
  IN IF lightConfig.type = "spot"
     THEN [SpotLight(color, baseIntensity, 1000000,
                     OrDefault(lightConfig, "angle", 1047),
                     OrDefault(lightConfig, "penumbra", 100),
                     OrDefault(lightConfig, "decay", 1000))
             EXCEPT !.position = basePosition, !.castShadow = TRUE]
     ELSE [PointLight(color, baseIntensity,
                      OrDefault(lightConfig, "distance", 1000000),
                      OrDefault(lightConfig, "decay", 1000))
             EXCEPT !.position = basePosition]

\* the store with key set to value (this.lights[key] = value)
Store(store, key, value) ==
  [k \in DOMAIN store \cup {key} |-> IF k = key THEN value ELSE store[k]]

\* the store without key (delete this.lights[key])
Delete(store, key) == [k \in DOMAIN store \ {key} |-> store[k]]

\* one iteration of the forEach in createDynamicLights;
\* lightConfig.position[0] is a TypeError when the spec has no position
CreateDynamicLight(w, lightConfig) ==
  IF lightConfig.type \in {"spot", "point"} /\ ~Has(lightConfig, "position")
  THEN [w EXCEPT !.threw = TRUE]
  ELSE IF lightConfig.type = "spot"
  THEN LET w1 == Added(w, Obj("light", lightConfig.name))
           w2 == Added(w1, Obj("target", lightConfig.name))
       IN [w2 EXCEPT !.lights = Store(@, lightConfig.name, NewDynamicLight(lightConfig))]
  ELSE IF lightConfig.type = "point"
  THEN LET w1 == Added(w, Obj("light", lightConfig.name))
       IN [w1 EXCEPT !.lights = Store(@, lightConfig.name, NewDynamicLight(lightConfig))]
  ELSE w

RECURSIVE CreateEach(_, _)
CreateEach(w, dynamicLights) ==
  IF dynamicLights = <<>> \/ w.threw THEN w
  ELSE CreateEach(CreateDynamicLight(w, Head(dynamicLights)), Tail(dynamicLights))

createDynamicLights(w, config) ==
  IF ~Has(config, "dynamicLights") THEN w
  ELSE CreateEach(w, config.dynamicLights)

\* variant: clearDynamicLights finds nothing to clear
DynamicLightKeys_None(store) == {}

\* the keys clearDynamicLights visits
DynamicLightKeys(store) == DOMAIN store \ {"ambient", "keyLight"}

\* variant: the light leaves the scene, its target stays
ClearDynamicLight_KeepTarget(w, key) ==
  [Logged(Removed(w, Obj("light", key)), "light.dispose", key, -1)
     EXCEPT !.lights = Delete(@, key)]

\* one iteration of the forEach in clearDynamicLights
ClearDynamicLight(w, key) ==
  LET w1 == Removed(w, Obj("light", key))
      w2 == IF Has(w.lights[key], "target") THEN Removed(w1, Obj("target", key)) ELSE w1
  IN [Logged(w2, "light.dispose", key, -1) EXCEPT !.lights = Delete(@, key)]

RECURSIVE ClearEach(_, _)
ClearEach(w, keys) ==
  IF keys = {} THEN w
  ELSE LET key == CHOOSE k \in keys : TRUE
       IN ClearEach(ClearDynamicLight(w, key), keys \ {key})

clearDynamicLights(w) == ClearEach(w, DynamicLightKeys(w.lights))

\* reading a property of config.ambient, config.keyLight or config.sun is a
\* TypeError when the config has no such object: w.threw
LightManager_applyMood(w, config) ==
  IF ~Has(config, "ambient") THEN [w EXCEPT !.threw = TRUE]
  ELSE
    LET w1 == [w EXCEPT
                 !.lights["ambient"].color = ColorSet(@, config.ambient.color),
                 !.lights["ambient"].intensity = config.ambient.intensity]
    IN IF ~Has(config, "keyLight") THEN [w1 EXCEPT !.threw = TRUE]
       ELSE
         LET keyPosition == config.keyLight.position
             w2 == [w1 EXCEPT
                      !.lights["keyLight"].color = ColorSet(@, config.keyLight.color),
                      !.lights["keyLight"].intensity = config.keyLight.intensity,
                      !.lights["keyLight"].position = keyPosition,
                      !.lights["keyLight"].target = <<0, 0, 0>>]
         IN IF ~Has(config, "sun") THEN [w2 EXCEPT !.threw = TRUE]
            ELSE
              LET w3 == [w2 EXCEPT
                           !.sunMesh = [visible |-> config.sun.visible,
                                        color |-> ColorSet(@.color, config.sun.color),
                                        position |-> keyPosition]]
              IN createDynamicLights(clearDynamicLights(w3), config)

\* Math.random() > 1 - chance, with the draw r and the chance in thousandths
Triggered(r, chance) == r > 1000 - chance

\* variant: without a trigger the light fades towards darkness
updateStrobeLight_FadeOut(light, config, params, r1, r2) ==
  IF Triggered(r1, params.triggerChance)
  THEN IF Has(params, "colors") /\ Len(params.colors) > 0
       THEN [light EXCEPT
               !.intensity = params.maxIntensity,
               !.color = Hex(params.colors[((r2 * Len(params.colors)) \div 1000) + 1])]
       ELSE [light EXCEPT !.intensity = params.maxIntensity]
  ELSE [light EXCEPT !.intensity = Lerp(@, 0, params.fadeSpeed)]

updateStrobeLight(light, config, params, r1, r2) ==
  LET baseIntensity == FirstOf(config.intensity)
  IN IF Triggered(r1, params.triggerChance)
     THEN IF Has(params, "colors") /\ Len(params.colors) > 0
          THEN [light EXCEPT
                  !.intensity = params.maxIntensity,
                  !.color = Hex(params.colors[((r2 * Len(params.colors)) \div 1000) + 1])]
          ELSE [light EXCEPT !.intensity = params.maxIntensity]
     ELSE [light EXCEPT !.intensity = Lerp(@, baseIntensity, params.fadeSpeed)]

updateDiscoLight(light, config, params, elapsedTime) ==
  IF light.type # "spot" THEN light
  ELSE LET rotationSpeed == params.rotationSpeed[1]
           angle == (elapsedTime * rotationSpeed) \div 1000
           radius == params.radius
           heightOffset == OrDefault(params, "heightOffset", 0)
           basePosition == FirstOf(config.position)
           moved == [light EXCEPT !.position =
                       << (Cos(angle) * radius) \div 1000 + basePosition[1],
                          basePosition[2] + heightOffset,
                          (Sin(angle) * radius) \div 1000 + basePosition[3] >>]
       IN IF Has(params, "targetMovement") /\ params.targetMovement
          THEN [moved EXCEPT !.target =
                  << (Cos(angle + 1571) * ((radius * 3) \div 10)) \div 1000,
                     0,
                     (Sin(angle + 1571) * ((radius * 3) \div 10)) \div 1000 >>]
          ELSE moved

\* variant: a jump is offset from where the light is, not from its base
updateExplosionLight_Accumulate(light, config, params, r1, r2, r3, r4) ==
  LET baseIntensity == FirstOf(config.intensity)
  IN IF Triggered(r1, params.triggerChance)
     THEN LET lit == [light EXCEPT
                        !.intensity = (baseIntensity * params.intensityMultiplier) \div 1000]
          IN IF params.randomPosition
             THEN [lit EXCEPT !.position =
                     << @[1] + (r2 - 500) * params.positionRange[1],
                        @[2] + r3 * params.positionRange[2],
                        @[3] + (r4 - 500) * params.positionRange[3] >>]
             ELSE lit
     ELSE [light EXCEPT !.intensity = Lerp(@, baseIntensity, params.fadeSpeed)]

updateExplosionLight(light, config, params, r1, r2, r3, r4) ==
  LET baseIntensity == FirstOf(config.intensity)
  IN IF Triggered(r1, params.triggerChance)
     THEN LET lit == [light EXCEPT
                        !.intensity = (baseIntensity * params.intensityMultiplier) \div 1000]
          IN IF params.randomPosition
             THEN LET basePosition == FirstOf(config.position)
                  IN [lit EXCEPT !.position =
                        << basePosition[1] + (r2 - 500) * params.positionRange[1],
                           basePosition[2] + r3 * params.positionRange[2],
                           basePosition[3] + (r4 - 500) * params.positionRange[3] >>]
             ELSE lit
     ELSE [light EXCEPT !.intensity = Lerp(@, baseIntensity, params.fadeSpeed)]

\* variant: the multiplier is applied to the light's intensity, not the base
updatePulseLight_Compound(light, config, params, elapsedTime) ==
  LET phase == (elapsedTime * params.frequency) \div 1000 + OrDefault(params, "phaseOffset", 0)
      pulseFactor == (SinTurn(phase) + 1000) \div 2
      multiplier == params.intensityRange[1]
                    + (pulseFactor * (params.intensityRange[2] - params.intensityRange[1])) \div 1000
  IN [light EXCEPT !.intensity = (@ * multiplier) \div 1000]

updatePulseLight(light, config, params, elapsedTime) ==
  LET baseIntensity == FirstOf(config.intensity)
      phase == (elapsedTime * params.frequency) \div 1000 + OrDefault(params, "phaseOffset", 0)
      pulseFactor == (SinTurn(phase) + 1000) \div 2
      minMultiplier == params.intensityRange[1]
      maxMultiplier == params.intensityRange[2]
      multiplier == minMultiplier + (pulseFactor * (maxMultiplier - minMultiplier)) \div 1000
  IN [light EXCEPT !.intensity = (baseIntensity * multiplier) \div 1000]

updateFlashLight(light, config, params, r1) ==
  LET baseIntensity == FirstOf(config.intensity)
  IN IF r1 > 1000 - (16000 \div params.cooldown)
     THEN [light EXCEPT !.intensity = (baseIntensity * params.intensityMultiplier) \div 1000]
     ELSE [light EXCEPT !.intensity = Lerp(@, baseIntensity, 100)]

\* Math.random() calls one animated light may make in one frame
DrawsOf(lightConfig) ==
  IF ~Has(lightConfig, "animation") THEN 0
  ELSE CASE lightConfig.animation.mode = "strobe" -> 2
         [] lightConfig.animation.mode = "explosion" -> 4
         [] lightConfig.animation.mode = "flash" -> 1
         [] OTHER -> 0

RECURSIVE DrawsOfAll(_)
DrawsOfAll(dynamicLights) ==
  IF dynamicLights = <<>> THEN 0
  ELSE DrawsOf(Head(dynamicLights)) + DrawsOfAll(Tail(dynamicLights))

\* Math.random() calls LightManager.update may make for this config
LightDraws(config) ==
  IF Has(config, "dynamicLights") THEN DrawsOfAll(config.dynamicLights) ELSE 0

\* updateAnimatedLight ends in a TypeError: params is read off an animation
\* that has none, or the mode's bag lacks the array the mode indexes
\* (params.rotationSpeed[0]) or destructures (params.intensityRange)
AnimationThrows(light, config) ==
  /\ Has(config, "animation")
  /\ LET mode == config.animation.mode
     IN IF ~Has(config.animation, "params")
        THEN mode \in {"strobe", "disco", "explosion", "pulse", "flash"}
        ELSE LET params == config.animation.params
             IN /\ Has(params, mode)
                /\ \/ mode = "pulse" /\ ~Has(params.pulse, "intensityRange")
                   \/ /\ mode = "disco" /\ light.type = "spot"
                      /\ ~Has(params.disco, "rotationSpeed")

\* the forEach callback of LightManager.update throws for this element
UpdateThrows(store, lightConfig) ==
  /\ lightConfig.name \in DOMAIN store
  /\ Has(lightConfig, "animation") /\ Has(lightConfig.animation, "enabled")
  /\ lightConfig.animation.enabled
  /\ AnimationThrows(store[lightConfig.name], lightConfig)

\* LightManager.update ends in an exception
LightUpdateThrows(store, moodConfig) ==
  /\ Has(moodConfig, "dynamicLights")
  /\ \E i \in 1 .. Len(moodConfig.dynamicLights) :
       UpdateThrows(store, moodConfig.dynamicLights[i])

\* updateAnimatedLight; rnd holds the draws of this light
updateAnimatedLight(light, config, elapsedTime, rnd) ==
  IF ~Has(config, "animation") THEN light
  ELSE LET mode == config.animation.mode
           params == config.animation.params
       IN IF ~Has(params, mode) THEN light
          ELSE CASE mode = "strobe" ->
                      updateStrobeLight(light, config, params.strobe, rnd[1], rnd[2])
                 [] mode = "disco" ->
                      updateDiscoLight(light, config, params.disco, elapsedTime)
                 [] mode = "explosion" ->
                      updateExplosionLight(light, config, params.explosion,
                                           rnd[1], rnd[2], rnd[3], rnd[4])
                 [] mode = "pulse" ->
                      updatePulseLight(light, config, params.pulse, elapsedTime)
                 [] mode = "flash" ->
                      updateFlashLight(light, config, params.flash, rnd[1])
                 [] OTHER -> light

\* variant: a light without an enabled animation fades towards 0
UpdateLight_FadeStatic(store, lightConfig, elapsedTime, rnd) ==
  IF lightConfig.name \notin DOMAIN store THEN store
  ELSE IF ~(Has(lightConfig, "animation") /\ Has(lightConfig.animation, "enabled")
            /\ lightConfig.animation.enabled)
  THEN [store EXCEPT ![lightConfig.name].intensity = Lerp(@, 0, 300)]
  ELSE [store EXCEPT ![lightConfig.name] =
          updateAnimatedLight(@, lightConfig, elapsedTime, rnd)]

\* moodConfig.dynamicLights.forEach(...) of LightManager.update, one element
UpdateLight(store, lightConfig, elapsedTime, rnd) ==
  IF lightConfig.name \notin DOMAIN store THEN store
  ELSE IF ~(Has(lightConfig, "animation") /\ Has(lightConfig.animation, "enabled")
            /\ lightConfig.animation.enabled) THEN store
  ELSE [store EXCEPT ![lightConfig.name] =
          updateAnimatedLight(@, lightConfig, elapsedTime, rnd)]

RECURSIVE UpdateEach(_, _, _, _)
UpdateEach(store, dynamicLights, elapsedTime, rnd) ==
  IF dynamicLights = <<>> THEN store
  ELSE IF UpdateThrows(store, Head(dynamicLights)) THEN store
  ELSE LET n == DrawsOf(Head(dynamicLights))
       IN UpdateEach(UpdateLight(store, Head(dynamicLights), elapsedTime, SubSeq(rnd, 1, n)),
                     Tail(dynamicLights), elapsedTime, SubSeq(rnd, n + 1, Len(rnd)))

\* LightManager.update(elapsedTime, moodConfig); rnd holds the frame's draws.
\* When an element throws, the lights before it have been updated.
LightManager_update(store, elapsedTime, moodConfig, rnd) ==
  IF ~Has(moodConfig, "dynamicLights") THEN store
  ELSE UpdateEach(store, moodConfig.dynamicLights, elapsedTime, rnd)

-----------------------------------------------------------------------------
(* EffectManager *)

\* bloomPass as the constructor builds it: UnrealBloomPass(res, 1.5, 0.4, 0.85)
InitialBloomPass == [threshold |-> 850, strength |-> 1500, radius |-> 400]

InitialComposer == [passes |-> <<"RenderPass", "UnrealBloomPass">>, renders |-> 0]

\* the number of particles built for a spec: its count, cut at MaxParticles
ParticleCount(pConfig) == Min(pConfig.count, MaxParticles)

\* getRandomSize / getRandomOpacity: x[0] + Math.random() * (x[1] - x[0]) or x
RandomIn(field, r) ==
  IF field.isArray THEN field.v[1] + (r * (field.v[2] - field.v[1])) \div 1000
  ELSE field.v[1]

\* Math.random() calls that decide the material of one system
MaterialDraws(pConfig) ==
  IF ~Has(pConfig, "material") THEN 0
  ELSE IF pConfig.material.size.isArray \/ pConfig.material.opacity.isArray THEN 1 ELSE 0

\* draws taken for one spec: the material's, then per particle one for the
\* three position coordinates and one for the three velocity coordinates
DrawsOfSpec(pConfig) ==
  IF ~Has(pConfig, "material") THEN 0
  ELSE MaterialDraws(pConfig) + 2 * ParticleCount(pConfig)

RECURSIVE DrawsOfSpecs(_)
DrawsOfSpecs(particleConfigs) ==
  IF particleConfigs = <<>> THEN 0
  ELSE DrawsOfSpec(Head(particleConfigs)) + DrawsOfSpecs(Tail(particleConfigs))

\* Array.isArray(config.particles) ? config.particles : [config.particles]
ParticleConfigs(config) ==
  IF Has(config, "particles") THEN config.particles.v ELSE <<>>

\* draws EffectManager.applyMood takes for this config
ParticleDraws(config) == DrawsOfSpecs(ParticleConfigs(config))

\* positions.push(...) of particle i, from the draw r
SpawnPosition(behavior, r) ==
  << (r - 500) * behavior.spawnArea[1],
     r * behavior.spawnArea[2],
     (r - 500) * behavior.spawnArea[3] >>

\* velocities.push(...) of particle i, from the draw r
SpawnVelocity(behavior, r) ==
  << ((r - 500) * behavior.velocity[1]) \div 1000,
     (r * behavior.velocity[2]) \div 1000,
     ((r - 500) * behavior.velocity[3]) \div 1000 >>

\* the { points, behavior } entry one spec creates; rnd holds its draws
NewParticleSystem(pConfig, rnd) ==
  LET count == ParticleCount(pConfig)
      material == pConfig.material
      perParticle == material.color.isArray \/ material.color.v[1] = "rainbow"
      m == MaterialDraws(pConfig)
      rm == IF m = 1 THEN rnd[1] ELSE 0
  IN [points |->
        [name |-> IF Has(pConfig, "name") /\ pConfig.name # "" THEN pConfig.name
                  ELSE "particleSystem",
         position |-> [i \in 1 .. count |-> SpawnPosition(pConfig.behavior, rnd[m + 2 * i - 1])],
         velocity |-> [i \in 1 .. count |-> SpawnVelocity(pConfig.behavior, rnd[m + 2 * i])],
         colors |-> IF perParticle THEN count ELSE 0,
         material |-> [size |-> RandomIn(material.size, rm),
                       map |-> material.textureType,
                       blending |-> material.blending,
                       depthWrite |-> material.depthWrite,
                       opacity |-> RandomIn(material.opacity, rm),
                       vertexColors |-> perParticle,
                       color |-> IF perParticle THEN White
                                 ELSE NewColor(material.color.v[1])]],
      behavior |-> pConfig.behavior]

\* one iteration of particleConfigs.forEach in EffectManager.applyMood;
\* material.textureType is a TypeError when the spec has no material
CreateParticleSystem(w, pConfig, rnd) ==
  IF ~Has(pConfig, "material") THEN [w EXCEPT !.threw = TRUE]
  ELSE
    LET system == NewParticleSystem(pConfig, rnd)
        w1 == [w EXCEPT !.particleSystems = Append(@, system)]
    IN Added(w1, Obj("points", system.points.name))

RECURSIVE CreateParticleSystems(_, _, _)
CreateParticleSystems(w, particleConfigs, rnd) ==
  IF particleConfigs = <<>> \/ w.threw THEN w
  ELSE LET n == DrawsOfSpec(Head(particleConfigs))
       IN CreateParticleSystems(
            CreateParticleSystem(w, Head(particleConfigs), SubSeq(rnd, 1, n)),
            Tail(particleConfigs), SubSeq(rnd, n + 1, Len(rnd)))

RECURSIVE RemovePoints(_, _)
RemovePoints(w, systems) ==
  IF systems = <<>> THEN w
  ELSE RemovePoints(Logged(Removed(w, Obj("points", Head(systems).points.name)),
                           "points.dispose", Head(systems).points.name, -1),
                    Tail(systems))

\* variant: the systems leave the scene but stay in this.particleSystems
clearParticleSystems_KeepArray(w) == RemovePoints(w, w.particleSystems)

clearParticleSystems(w) ==
  [RemovePoints(w, w.particleSystems) EXCEPT !.particleSystems = <<>>]

\* variant: the particle systems are rebuilt, the bloom pass keeps its values
EffectManager_applyMood_KeepBloom(w, config, rnd) ==
  CreateParticleSystems(clearParticleSystems(w), ParticleConfigs(config), rnd)

\* config.bloom.threshold is a TypeError when the config has no bloom
EffectManager_applyMood(w, config, rnd) ==
  LET w1 == clearParticleSystems(w)
      w2 == CreateParticleSystems(w1, ParticleConfigs(config), rnd)
  IN IF w2.threw \/ ~Has(config, "bloom") THEN [w2 EXCEPT !.threw = TRUE]
     ELSE [w2 EXCEPT !.bloomPass = [threshold |-> config.bloom.threshold,
                                    strength |-> config.bloom.strength,
                                    radius |-> config.bloom.radius]]

\* variant: a particle that leaves the spawn area is not put back
MoveParticle_NoWrap(pos, vel, behavior, deltaTime) ==
  << pos[1] + (vel[1] * deltaTime) \div 10,
     pos[2] + (vel[2] * deltaTime) \div 10,
     pos[3] + (vel[3] * deltaTime) \div 10 >>

\* the body of the for loop of EffectManager.update for one particle:
\* the new position of a particle at pos moving with vel
MoveParticle(pos, vel, behavior, deltaTime) ==
  LET x == pos[1] + (vel[1] * deltaTime) \div 10
      y == pos[2] + (vel[2] * deltaTime) \div 10
      z == pos[3] + (vel[3] * deltaTime) \div 10
      top == behavior.spawnArea[2] * 1000
      y1 == IF y > top /\ behavior.direction = "up" THEN 0 ELSE y
      y2 == IF y1 < 0 /\ behavior.direction = "down" THEN top ELSE y1
  IN <<x, y2, z>>

UpdateParticleSystem(system, deltaTime) ==
  [system EXCEPT !.points.position =
     [i \in DOMAIN @ |-> MoveParticle(@[i], system.points.velocity[i],
                                      system.behavior, deltaTime)]]

\* EffectManager.update(deltaTime)
EffectManager_update(systems, deltaTime) ==
  [k \in DOMAIN systems |-> UpdateParticleSystem(systems[k], deltaTime)]

-----------------------------------------------------------------------------
(* LandscapeManager *)

\* a MeshStandardMaterial / MeshPhongMaterial as far as the manager uses it
Material(kind, color) ==
  [kind |-> kind, color |-> color, emissive |-> Hex(0), emissiveIntensity |-> 1000]

\* the colour an asset's own material comes with
AssetColor == Css("asset")

\* material classes getMaterialForInstancing can hand out: the placeholder and
\* fallback material, and the material OBJLoader/MTLLoader build
MaterialKinds == {"MeshStandardMaterial", "MeshPhongMaterial"}

\* the manager after createGround(), before any vegetation has loaded
InitialLandscape ==
  [ground |-> Material("MeshStandardMaterial", Hex(5597999)),
   trees |-> Null, crops |-> Null, currentVegConfig |-> Null]

applyMoodToAssetMaterials(ls, vegConfig) ==
  LET ls1 == IF Truthy(ls.trees) /\ ls.trees.kind = "MeshStandardMaterial"
             THEN [ls EXCEPT !.trees.color = ColorSet(@, vegConfig.treeColor)]
             ELSE ls
  IN IF Truthy(ls1.crops) /\ ls1.crops.kind = "MeshStandardMaterial"
     THEN [ls1 EXCEPT !.crops.color = ColorSet(@, vegConfig.cropColor)]
     ELSE ls1

LandscapeManager_applyMood(w, config) ==
  LET ls1 == IF Truthy(w.landscape.ground)
             THEN [w.landscape EXCEPT !.ground.color = ColorSet(@, config.groundColor)]
             ELSE w.landscape
      ls2 == [ls1 EXCEPT !.currentVegConfig = config.vegetation]
  IN [w EXCEPT !.landscape = applyMoodToAssetMaterials(ls2, config.vegetation)]

cleanupVegetation(w) ==
  LET w1 == IF Truthy(w.landscape.trees)
            THEN [Removed(w, Obj("mesh", "trees")) EXCEPT !.landscape.trees = Null]
            ELSE w
  IN IF Truthy(w1.landscape.crops)
     THEN [Removed(w1, Obj("mesh", "crops")) EXCEPT !.landscape.crops = Null]
     ELSE w1

generateVegetation(w, treeKind, plantKind) ==
  LET w1 == Added([w EXCEPT !.landscape.trees = Material(treeKind, AssetColor)],
                  Obj("mesh", "trees"))
  IN Added([w1 EXCEPT !.landscape.crops = Material(plantKind, AssetColor)],
           Obj("mesh", "crops"))

\* variant: the vegetation in the scene is not cleaned up first
generateLandscapeFromSelection_NoCleanup(w, treeKind, plantKind) ==
  LET w1 == IF Truthy(w.landscape.currentVegConfig)
            THEN [w EXCEPT !.landscape =
                    applyMoodToAssetMaterials(@, w.landscape.currentVegConfig)]
            ELSE w
  IN Logged(generateVegetation(w1, treeKind, plantKind),
            "emit:landscape:generation-completed", "success", -1)

\* generateLandscapeFromSelection once its four asset requests have resolved;
\* treeKind and plantKind are the material classes the tree and the plant
\* asset come with
generateLandscapeFromSelection(w, treeKind, plantKind) ==
  LET w1 == IF Truthy(w.landscape.currentVegConfig)
            THEN [w EXCEPT !.landscape =
                    applyMoodToAssetMaterials(@, w.landscape.currentVegConfig)]
            ELSE w
  IN Logged(generateVegetation(cleanupVegetation(w1), treeKind, plantKind),
            "emit:landscape:generation-completed", "success", -1)

\* LandscapeManager.update reads moodConfig.vegetation.pulsingColor: a
\* TypeError when the config has no vegetation
LandscapeUpdateThrows(ls, moodConfig) ==
  /\ Truthy(ls.trees) /\ Truthy(ls.crops) /\ Truthy(ls.ground)
  /\ ~Has(moodConfig, "vegetation")

Flag(cfg, field) == Has(cfg, field) /\ cfg[field]

\* LandscapeManager.update(elapsedTime, moodConfig) when it does not throw
LandscapeManager_update(ls, elapsedTime, moodConfig) ==
  IF ~(Truthy(ls.trees) /\ Truthy(ls.crops) /\ Truthy(ls.ground)) THEN ls
  ELSE
    LET vegConfig == moodConfig.vegetation
        hue == ((elapsedTime * 30) \div 1000) % 1000
        saturation == 700 + (Sin((elapsedTime * 50) \div 1000) * 200) \div 1000
        lightness == 500 + (Sin((elapsedTime * 40) \div 1000) * 150) \div 1000
        ls1 == [ls EXCEPT !.ground.color = ColorSet(@, moodConfig.groundColor)]
        ls2 == IF Flag(vegConfig, "pulsingColor")
               THEN [ls1 EXCEPT
                       !.trees.color = Hsl(hue, saturation, lightness),
                       !.crops.color = Hsl((hue + 300) % 1000,
                                           (saturation * 900) \div 1000,
                                           lightness + 100)]
               ELSE [ls1 EXCEPT
                       !.trees.color = ColorSet(@, vegConfig.treeColor),
                       !.crops.color = ColorSet(@, vegConfig.cropColor)]
        intensity == (((Sin((elapsedTime * 800) \div 1000) + 1000) \div 2) * 300) \div 1000 + 100
        emissiveColor == Hsl(((elapsedTime * 20) \div 1000) % 1000, 500, 400)
    IN IF Flag(vegConfig, "emissiveGlow") /\ Has(vegConfig, "emissiveColor")
       THEN [ls2 EXCEPT
               !.trees.emissive = emissiveColor,
               !.trees.emissiveIntensity = (intensity * 700) \div 1000,
               !.crops.emissive = emissiveColor,
               !.crops.emissiveIntensity = (intensity * 800) \div 1000,
               !.ground.emissive = emissiveColor,
               !.ground.emissiveIntensity = (intensity * 200) \div 1000]
       ELSE [ls2 EXCEPT
               !.trees.emissiveIntensity = 0,
               !.crops.emissiveIntensity = 0,
               !.ground.emissiveIntensity = 0]

-----------------------------------------------------------------------------
(* MoodManager *)

\* config.name, "" when the value has none
NameOf(config) == IF Has(config, "name") THEN config.name ELSE ""

\* variant: the effect manager is told before the light manager
CoordinateManagers_EffectFirst(w, config, rnd) ==
  LET n == NameOf(config)
      w1 == EffectManager_applyMood(
              Logged(w, "effectManager.applyMood", n, -1), config, rnd)
      w2 == LightManager_applyMood(
              Logged(w1, "lightManager.applyMood", n, -1), config)
  IN IF w1.threw THEN w1
     ELSE IF w2.threw THEN w2
     ELSE LandscapeManager_applyMood(
            Logged(w2, "landscapeManager.applyMood", n, -1), config)

\* the three manager calls that end MoodManager.applyMood; an exception in
\* one of them ends the call there
CoordinateManagers(w, config, rnd) ==
  LET n == NameOf(config)
      w1 == LightManager_applyMood(
              Logged(w, "lightManager.applyMood", n, -1), config)
      w2 == EffectManager_applyMood(
              Logged(w1, "effectManager.applyMood", n, -1), config, rnd)
  IN IF w1.threw THEN w1
     ELSE IF w2.threw THEN w2
     ELSE LandscapeManager_applyMood(
            Logged(w2, "landscapeManager.applyMood", n, -1), config)

\* MoodManager.applyMood(moodName); rnd holds the draws of the particle build.
\* w.threw tells whether the call ended in an exception.
MoodManager_applyMood(w, moodName, rnd) ==
  LET config == LookupIn(w.moodStyles, moodName)
  IN IF ~Truthy(config) THEN Logged(w, "moodLogger.warn", moodName, -1)
     ELSE
       LET n == NameOf(config)
           w1 == [w EXCEPT !.currentMood = Ref(moodName)]
           w2 == Logged([w1 EXCEPT !.scene.background =
                           IF Has(config, "skyColor") THEN NewColor(config.skyColor)
                           ELSE White],
                        "scene.background", n, -1)
       IN IF ~Has(config, "fog") THEN [w2 EXCEPT !.threw = TRUE]
          ELSE
            CoordinateManagers(
              Logged([w2 EXCEPT !.scene.fog =
                        [color |-> NewColor(config.fog.color),
                         density |-> config.fog.density]],
                     "scene.fog", n, -1),
              config, rnd)

-----------------------------------------------------------------------------
(* SceneManager: the render loop *)

\* the frame times requestAnimationFrame may leave between two frames, ms
FrameDeltas == {16, 250}

InitialCamera == [position |-> <<0, 50000, 200000>>, isAutoRotating |-> TRUE]

\* CameraManager.update(elapsedTime): radius 250, speed 0.1, height 50
CameraManager_update(cam, elapsedTime) ==
  IF ~cam.isAutoRotating THEN cam
  ELSE LET angle == (elapsedTime * 100) \div 1000
       IN [cam EXCEPT !.position =
             <<(Cos(angle) * 250000) \div 1000, 50000, (Sin(angle) * 250000) \div 1000>>]

\* UIManager.update(_elapsedTime, moodConfig)
UIManager_update(uiState, moodConfig) ==
  IF Has(moodConfig, "ui") /\ Has(moodConfig.ui, "borderColor")
     /\ moodConfig.ui.borderColor # ""
  THEN [uiState EXCEPT !.primaryColor = moodConfig.ui.borderColor]
  ELSE uiState

applySpecialMoodAnimations(w, elapsedTime, currentMoodConfig) ==
  LET w1 == Logged(w, "applySpecialMoodAnimations", NameOf(currentMoodConfig), elapsedTime)
  IN IF NameOf(currentMoodConfig) = "Kooperativ"
     THEN [w1 EXCEPT !.scene.background = Hsl(((elapsedTime * 50) \div 1000) % 1000, 500, 100)]
     ELSE w1

\* updateAllManagers up to and including landscapeManager.update's call
UpdateUpToLandscape(w, deltaTime, elapsedTime, cfg, rnd) ==
  LET n == NameOf(cfg)
      w1 == [Logged(w, "cameraManager.update", "", elapsedTime)
               EXCEPT !.camera = CameraManager_update(@, elapsedTime)]
      w2 == Logged(w1, "controls.update", "", -1)
      w3 == [Logged(w2, "lightManager.update", n, elapsedTime)
               EXCEPT !.lights = LightManager_update(@, elapsedTime, cfg, rnd)]
      w4 == [Logged(w3, "effectManager.update", "", deltaTime)
               EXCEPT !.particleSystems = EffectManager_update(@, deltaTime)]
  IN IF LightUpdateThrows(w.lights, cfg) THEN [w3 EXCEPT !.threw = TRUE]
     ELSE Logged(w4, "landscapeManager.update", n, elapsedTime)

\* SceneManager.updateAllManagers: nothing catches what a manager throws
updateAllManagers(w, deltaTime, elapsedTime, cfg, rnd) ==
  LET w5 == UpdateUpToLandscape(w, deltaTime, elapsedTime, cfg, rnd)
  IN IF w5.threw THEN w5
     ELSE IF LandscapeUpdateThrows(w5.landscape, cfg) THEN [w5 EXCEPT !.threw = TRUE]
     ELSE LET w6 == [w5 EXCEPT !.landscape = LandscapeManager_update(@, elapsedTime, cfg)]
          IN [Logged(w6, "uiManager.update", NameOf(cfg), elapsedTime)
                EXCEPT !.ui = UIManager_update(@, cfg)]

composerRender(w) ==
  [Logged(w, "composer.render", "", -1) EXCEPT !.composer.renders = @ + 1]

\* SceneManager.animate after its requestAnimationFrame call, with the clock
\* readings deltaTime and elapsedTime
animate(w, deltaTime, elapsedTime, rnd) ==
  LET currentMoodConfig == DerefIn(w.moodStyles, w.currentMood)
  IN IF Truthy(currentMoodConfig)
     THEN LET w1 == updateAllManagers(w, deltaTime, elapsedTime, currentMoodConfig, rnd)
          IN IF w1.threw THEN w1
             ELSE composerRender(applySpecialMoodAnimations(w1, elapsedTime, currentMoodConfig))
     ELSE composerRender(w)

-----------------------------------------------------------------------------
(* MoodDebugSystem *)

\* the instance when its module has been evaluated; initialized tells
\* whether moodManager has been set; temporaryOverrideTimeout is the timer
\* id the field holds, 0 for null; timers are the ids of the expiry timers
\* set and neither run nor cleared, nextTimer the id setTimeout returns next
InitialDebug ==
  [initialized |-> FALSE, enabled |-> TRUE, originalMood |-> "Harmonisch",
   temporaryOverrideTimeout |-> 0, timers |-> {}, nextTimer |-> 1]

\* an object literal without properties
EmptyObject == [f \in {} |-> 0]

\* { ...base, ...set } for a literal that also holds the properties unset
\* with the value undefined; spreading undefined adds nothing
Spread(base, set, unset) ==
  LET b == IF Truthy(base) THEN base ELSE EmptyObject
  IN [f \in (DOMAIN b \cup DOMAIN set) \ unset |->
        IF f \in DOMAIN set THEN set[f] ELSE b[f]]

\* obj[field], undefined when obj has no such property
Get(obj, field) == IF Has(obj, field) THEN obj[field] ELSE Undefined

\* MoodDebugSystem.initialize(moodManager)
initialize(w) ==
  LET currentConfig == DerefIn(w.moodStyles, w.currentMood)
  IN [w EXCEPT !.debug.initialized = TRUE,
               !.debug.originalMood =
                 IF Truthy(currentConfig) /\ NameOf(currentConfig) # ""
                 THEN currentConfig.name ELSE @]

getCurrentMood(w) ==
  LET currentConfig == DerefIn(w.moodStyles, w.currentMood)
  IN IF ~w.debug.initialized THEN "Unknown"
     ELSE IF Truthy(currentConfig) /\ NameOf(currentConfig) # ""
     THEN currentConfig.name
     ELSE w.debug.originalMood

\* applyTempConfig(config): the config is a property of moodStyles while
\* applyMood runs; what applyMood stored keeps pointing at the object
applyTempConfig(w, config, rnd) ==
  IF ~w.debug.initialized THEN w
  ELSE
    LET w1 == [w EXCEPT !.moodStyles = Store(@, "DEBUG_TEMP", config)]
        w2 == MoodManager_applyMood(w1, "DEBUG_TEMP", rnd)
    IN [w2 EXCEPT !.moodStyles = Delete(@, "DEBUG_TEMP"),
                  !.currentMood = IF @ = Ref("DEBUG_TEMP") THEN Detached(config) ELSE @]

\* moodName in moodStyles
InMoodStyles(catalog, moodName) ==
  moodName \in DOMAIN catalog \cup DOMAIN ObjectPrototypeMembers

setMood(w, moodName, rnd) ==
  IF ~w.debug.enabled \/ ~w.debug.initialized THEN w
  ELSE IF ~InMoodStyles(w.moodStyles, moodName)
  THEN Logged(w, "console.error", moodName, -1)
  ELSE LET w1 == MoodManager_applyMood(w, moodName, rnd)
       IN IF w1.threw THEN w1 ELSE [w1 EXCEPT !.debug.originalMood = moodName]

\* the config adjustBloom hands to applyTempConfig
BloomConfig(w, bloomParams) ==
  LET currentConfig == Spread(LookupIn(w.moodStyles, getCurrentMood(w)), EmptyObject, {})
  IN Store(currentConfig, "bloom", Spread(Get(currentConfig, "bloom"), bloomParams, {}))

adjustBloom(w, bloomParams, rnd) ==
  IF ~w.debug.enabled \/ ~w.debug.initialized THEN w
  ELSE applyTempConfig(w, BloomConfig(w, bloomParams), rnd)

\* the config adjustLighting hands to applyTempConfig
LightingConfig(w, lightParams) ==
  LET currentConfig == Spread(LookupIn(w.moodStyles, getCurrentMood(w)), EmptyObject, {})
      c1 == IF Has(lightParams, "ambient")
            THEN Store(currentConfig, "ambient",
                       Spread(Get(currentConfig, "ambient"), lightParams.ambient, {}))
            ELSE currentConfig
  IN IF Has(lightParams, "keyLight")
     THEN Store(c1, "keyLight", Spread(Get(c1, "keyLight"), lightParams.keyLight, {}))
     ELSE c1

adjustLighting(w, lightParams, rnd) ==
  IF ~w.debug.enabled \/ ~w.debug.initialized THEN w
  ELSE applyTempConfig(w, LightingConfig(w, lightParams), rnd)

\* particles.material.size = ..., particles.material.opacity = ...: the
\* material is the object the catalog entry holds
AdjustedMaterial(material, particleParams) ==
  LET m1 == IF Has(particleParams, "size")
            THEN [material EXCEPT !.size = Scalar(particleParams.size)] ELSE material
  IN IF Has(particleParams, "opacity")
     THEN [m1 EXCEPT !.opacity = Scalar(particleParams.opacity)] ELSE m1

\* the first particle spec as adjustParticles leaves it
AdjustedSpec(pConfig, particleParams) ==
  LET p1 == IF Has(particleParams, "count")
            THEN [pConfig EXCEPT !.count = particleParams.count] ELSE pConfig
  IN [p1 EXCEPT !.material = AdjustedMaterial(@, particleParams)]

\* moodStyles after adjustParticles has written through its shallow copies:
\* [...particles] shares the spec objects, { ...particles } shares material
AdjustedCatalog(w, particleParams) ==
  LET name == getCurrentMood(w)
      entry == LookupIn(w.moodStyles, name)
  IN IF ~(name \in DOMAIN w.moodStyles /\ Has(entry, "particles")) THEN w.moodStyles
     ELSE IF entry.particles.isArray
     THEN [w.moodStyles EXCEPT ![name].particles.v[1] = AdjustedSpec(@, particleParams)]
     ELSE [w.moodStyles EXCEPT ![name].particles.v[1].material =
             AdjustedMaterial(@, particleParams)]

\* the config adjustParticles hands to applyTempConfig
ParticlesConfig(w, particleParams) ==
  LET entry == LookupIn(AdjustedCatalog(w, particleParams), getCurrentMood(w))
      currentConfig == Spread(entry, EmptyObject, {})
  IN IF Has(currentConfig, "particles") /\ ~currentConfig.particles.isArray
        /\ Has(particleParams, "count")
     THEN [currentConfig EXCEPT !.particles.v[1].count = particleParams.count]
     ELSE currentConfig

adjustParticles(w, particleParams, rnd) ==
  IF ~w.debug.enabled THEN w
  ELSE applyTempConfig([w EXCEPT !.moodStyles = AdjustedCatalog(w, particleParams)],
                       ParticlesConfig(w, particleParams), rnd)

\* the config tempOverride hands to applyTempConfig
OverrideConfig(w, customConfig) ==
  Spread(LookupIn(w.moodStyles, getCurrentMood(w)), customConfig.set, customConfig.unset)

\* tempOverride(customConfig, durationMs): the timer the field holds is
\* cleared and the new one set only when applyTempConfig has returned
tempOverride(w, customConfig, rnd) ==
  IF ~w.debug.enabled \/ ~w.debug.initialized THEN w
  ELSE LET w1 == applyTempConfig(w, OverrideConfig(w, customConfig), rnd)
           id == w1.debug.nextTimer
       IN IF w1.threw THEN w1
          ELSE [w1 EXCEPT !.debug.timers =
                            (@ \ {w1.debug.temporaryOverrideTimeout}) \cup {id},
                          !.debug.temporaryOverrideTimeout = id,
                          !.debug.nextTimer = id + 1]

resetToOriginal(w, rnd) ==
  IF ~w.debug.enabled THEN w
  ELSE setMood([w EXCEPT !.debug.timers = @ \ {w.debug.temporaryOverrideTimeout},
                         !.debug.temporaryOverrideTimeout = 0],
               w.debug.originalMood, rnd)

\* the callback tempOverride handed to setTimeout, run as timer t
overrideExpired(w, t, rnd) ==
  resetToOriginal([Logged(w, "console.log", "override expired", -1)
                     EXCEPT !.debug.timers = @ \ {t}], rnd)

-----------------------------------------------------------------------------
(* The state machine *)

\* the program state a handler starts from, with an empty call log
World ==
  [moodStyles |-> moodStyles, debug |-> debug, currentMood |-> currentMood,
   scene |-> scene, lights |-> lights,
   sunMesh |-> sunMesh, particleSystems |-> particleSystems,
   bloomPass |-> bloomPass, composer |-> composer, landscape |-> landscape,
   camera |-> camera, ui |-> ui, audio |-> audio, rfid |-> rfid, bus |-> bus,
   assets |-> assets, log |-> <<>>, threw |-> FALSE]

\* the handler ended in world w
Commit(w) ==
  /\ moodStyles' = w.moodStyles
  /\ debug' = w.debug
  /\ currentMood' = w.currentMood
  /\ scene' = w.scene
  /\ lights' = w.lights
  /\ sunMesh' = w.sunMesh
  /\ particleSystems' = w.particleSystems
  /\ bloomPass' = w.bloomPass
  /\ composer' = w.composer
  /\ landscape' = w.landscape
  /\ camera' = w.camera
  /\ ui' = w.ui
  /\ audio' = w.audio
  /\ rfid' = w.rfid
  /\ bus' = w.bus
  /\ assets' = w.assets
  /\ callLog' = w.log

Op(op, name, repeat, threw, deltaTime, elapsedTime) ==
  [op |-> op, name |-> name, repeat |-> repeat, threw |-> threw,
   deltaTime |-> deltaTime, elapsedTime |-> elapsedTime]

\* names applyMood is called with: the catalog's, one that is nowhere on
\* moodStyles, one that moodStyles inherits
MoodNames == CatalogNames \cup {"Nonexistent", "constructor"}

\* AudioManager.audioState as the class initializes it; loading holds the
\* songs whose Howl has been created and has not yet called onload or
\* onloaderror. howl tells whether this.currentSong holds a Howl and how far
\* its load is; music is the volume of the music channel in thousandths;
\* infoStopPending counts the stopped info Howls whose onstop callback has
\* not run yet
InitialAudio ==
  [isLoading |-> FALSE, isPlaying |-> FALSE, currentSong |-> Null, loading |-> <<>>,
   howl |-> "none", music |-> 1000, currentInfoAudio |-> Null, infoStopPending |-> 0]

\* RFIDMusicManager as its field initializers leave it: the lookup maps are
\* empty until loadData has resolved; inputTimeout tells whether the field
\* holds a timer id, timerPending whether that timer has yet to fire
InitialRfid ==
  [loaded |-> FALSE, selection |-> [tree |-> Null, plant |-> Null],
   inputBuffer |-> <<>>, inputTimeout |-> FALSE, timerPending |-> FALSE,
   isListening |-> FALSE]

\* AssetManager as constructed, with nothing cached and nothing loading;
\* calls holds the loadAsset calls made, each with the promise's outcome, and
\* requests the generateLandscapeFromSelection calls with the places of
\* their four loadAsset calls in calls
InitialAssets == [cache |-> {}, currentLoads |-> {}, calls |-> <<>>, requests |-> <<>>]

\* UIManager as its field initializers leave it; timers holds the ids of the
\* timeouts the manager has set that the browser has neither fired nor
\* cleared, nextTimer the id the next setTimeout returns; autoHideTimeout is
\* a timer id or, for null, 0
InitialUi ==
  [primaryColor |-> "", isVisible |-> FALSE, currentMode |-> "main",
   autoHideTimeout |-> 0, isInfoPlaying |-> FALSE, timers |-> {}, nextTimer |-> 1,
   disposed |-> FALSE]

\* the listener functions followed on the bus, by what they do when called:
\* App's 'mood:change' listener calls applyMood(data.moodName); one only
\* returns; one throws; one emits the event it was called for once more, the
\* first time it is called
ListenerKind ==
  [l \in {"app", "plain", "thrower", "reemitter"} |->
     CASE l = "app" -> "applyMood"
       [] l = "plain" -> "return"
       [] l = "thrower" -> "throw"
       [] l = "reemitter" -> "emit"]

\* the events followed on the bus
BusEvents == {"mood:change", "system:reset"}

\* gameEventBus as constructed: both maps empty; a Set of listeners is the
\* sequence of its elements in insertion order; calls counts the calls each
\* listener function has received
InitialBus ==
  [listeners |-> [e \in BusEvents |-> <<>>],
   onceListeners |-> [e \in BusEvents |-> <<>>],
   calls |-> [l \in DOMAIN ListenerKind |-> 0]]

\* the world after new SceneManager(container), new MoodManager(),
\* new AudioManager() and new RFIDMusicManager()
Constructed ==
  [moodStyles |-> moodDefinitions, debug |-> InitialDebug, currentMood |-> Null,
   scene |-> [background |-> Null, fog |-> Null,
              children |-> InitialLightChildren \o <<Obj("mesh", "ground")>>],
   lights |-> InitialLights, sunMesh |-> InitialSunMesh, particleSystems |-> <<>>,
   bloomPass |-> InitialBloomPass, composer |-> InitialComposer,
   landscape |-> InitialLandscape, camera |-> InitialCamera,
   ui |-> InitialUi, audio |-> InitialAudio, rfid |-> InitialRfid,
   bus |-> InitialBus, assets |-> InitialAssets, log |-> <<>>, threw |-> FALSE]

\* the program is in world w
IsWorld(w) ==
  /\ moodStyles = w.moodStyles
  /\ debug = w.debug
  /\ currentMood = w.currentMood
  /\ scene = w.scene
  /\ lights = w.lights
  /\ sunMesh = w.sunMesh
  /\ particleSystems = w.particleSystems
  /\ bloomPass = w.bloomPass
  /\ composer = w.composer
  /\ landscape = w.landscape
  /\ camera = w.camera
  /\ ui = w.ui
  /\ audio = w.audio
  /\ rfid = w.rfid
  /\ bus = w.bus
  /\ assets = w.assets
  /\ callLog = w.log

\* the state after new SceneManager(container) and new MoodManager()
Init ==
  /\ IsWorld(Constructed)
  /\ clock = [running |-> FALSE, elapsedTime |-> 0, frames |-> 0]
  /\ rafPending = 0
  /\ lastOp = Op("init", "", FALSE, FALSE, 0, 0)
  /\ ops = 0

\* moodManager.applyMood(moodName)
ApplyMood(moodName) ==
  /\ ops < MaxOps
  /\ ops' = ops + 1
  /\ \E rnd \in RandomStreams(ParticleDraws(Lookup(moodName))) :
       LET w == MoodManager_applyMood(World, moodName, rnd)
       IN /\ Commit(w)
          /\ lastOp' = Op("applyMood", moodName,
                          lastOp.op = "applyMood" /\ lastOp.name = moodName,
                          w.threw, 0, 0)
          /\ UNCHANGED <<clock, rafPending>>

\* one run of SceneManager.animate with the clock reading deltaTime
Frame(deltaTime) ==
  LET elapsedTime == clock.elapsedTime + deltaTime
  IN \E rnd \in RandomStreams(LightDraws(Deref(currentMood))) :
       LET w == animate(World, deltaTime, elapsedTime, rnd)
       IN /\ Commit(w)
          /\ clock' = [running |-> TRUE, elapsedTime |-> elapsedTime,
                       frames |-> clock.frames + 1]
          /\ lastOp' = Op("animate", NameOf(Deref(currentMood)), FALSE, w.threw,
                          deltaTime, elapsedTime)
          /\ ops' = ops + 1

\* sceneManager.animate(moodManager, uiManager) called by the application:
\* the clock starts, so the first getDelta() is 0
StartAnimationLoop ==
  /\ ops < MaxOps
  /\ ~clock.running
  /\ rafPending = 0
  /\ rafPending' = 1
  /\ Frame(0)

\* the callback queued with requestAnimationFrame runs and queues the next
AnimationFrame ==
  /\ ops < MaxOps
  /\ rafPending = 1
  /\ rafPending' = 1
  /\ \E deltaTime \in FrameDeltas : Frame(deltaTime)

\* generateLandscapeFromSelection resumes after its assets have loaded
LandscapeGenerated ==
  /\ ops < MaxOps
  /\ ops' = ops + 1
  /\ \E kind \in MaterialKinds :
       LET w == generateLandscapeFromSelection(World, kind, kind)
       IN /\ Commit(w)
          /\ lastOp' = Op("generateLandscape", "", FALSE, FALSE, 0, 0)
          /\ UNCHANGED <<clock, rafPending>>

\* App.dispose(): the four UI, RFID and audio managers are disposed and the
\* event bus is emptied; the scene manager and its managers are not touched
App_dispose(w) ==
  LET w1 == Logged(w, "rfidMusicManager.dispose", "", -1)
      w2 == Logged(w1, "audioManager.dispose", "", -1)
      w3 == Logged(w2, "roundUIManager.dispose", "", -1)
      w4 == Logged(w3, "uiManager.dispose", "", -1)
  IN Logged(w4, "gameEventBus.removeAllListenersForAllEvents", "", -1)

\* app.dispose()
AppDispose ==
  /\ ops < MaxOps
  /\ ops' = ops + 1
  /\ Commit(App_dispose(World))
  /\ lastOp' = Op("dispose", "", lastOp.op = "dispose", FALSE, 0, 0)
  /\ UNCHANGED <<clock, rafPending>>

Next ==
  \/ \E moodName \in MoodNames : ApplyMood(moodName)
  \/ StartAnimationLoop
  \/ AnimationFrame
  \/ LandscapeGenerated
  \/ AppDispose

Spec == Init /\ [][Next]_vars

-----------------------------------------------------------------------------
(* The debug console: window.moodDebug on the running application *)

\* the world once the App constructor has applied 'Harmonisch', the debug
\* tools have been initialized and the first frame has run
AppStarted(rnd) ==
  animate([initialize(MoodManager_applyMood(Constructed, "Harmonisch", rnd))
             EXCEPT !.log = <<>>],
          0, 0, <<>>)

DebugInit ==
  /\ \E rnd \in RandomStreams(ParticleDraws(Harmonisch)) : IsWorld(AppStarted(rnd))
  /\ clock = [running |-> TRUE, elapsedTime |-> 0, frames |-> 1]
  /\ rafPending = 1
  /\ lastOp = Op("animate", "Harmonisch", FALSE, FALSE, 0, 0)
  /\ ops = 0

\* a handler of the debug console ended in world w; config is the entry it
\* had applyMood look up
DebugOp(w, op, name, config) ==
  /\ ops < MaxOps
  /\ ops' = ops + 1
  /\ Commit(w)
  /\ lastOp' = [op |-> op, name |-> name, repeat |-> FALSE, threw |-> w.threw,
                deltaTime |-> 0, elapsedTime |-> 0, config |-> config]
  /\ UNCHANGED <<clock, rafPending>>

\* window.moodDebug.setMood(moodName)
DebugSetMood(moodName) ==
  \E rnd \in RandomStreams(ParticleDraws(Lookup(moodName))) :
    DebugOp(setMood(World, moodName, rnd), "setMood", moodName, Lookup(moodName))

\* window.moodDebug.adjustBloom(bloomParams)
AdjustBloom ==
  \E bloomParams \in {[strength |-> 2000, threshold |-> 100]} :
    \E rnd \in RandomStreams(ParticleDraws(BloomConfig(World, bloomParams))) :
      DebugOp(adjustBloom(World, bloomParams, rnd), "adjustBloom", getCurrentMood(World),
              BloomConfig(World, bloomParams))

\* window.moodDebug.adjustLighting(lightParams)
AdjustLighting ==
  \E lightParams \in {[ambient |-> [intensity |-> 1200],
                        keyLight |-> [intensity |-> 4000]]} :
    \E rnd \in RandomStreams(ParticleDraws(LightingConfig(World, lightParams))) :
      DebugOp(adjustLighting(World, lightParams, rnd), "adjustLighting",
              getCurrentMood(World), LightingConfig(World, lightParams))

\* window.moodDebug.adjustParticles(particleParams)
AdjustParticles ==
  \E particleParams \in {[count |-> 0], [size |-> 3000]} :
    \E rnd \in RandomStreams(ParticleDraws(ParticlesConfig(World, particleParams))) :
      DebugOp(adjustParticles(World, particleParams, rnd), "adjustParticles",
              getCurrentMood(World), ParticlesConfig(World, particleParams))

\* a particle spec and a pulse light as a developer types them
TestSpec ==
  [name |-> "test", count |-> 100,
   material |-> [size |-> Scalar(2000), textureType |-> "sparkle",
                 blending |-> "additive", depthWrite |-> FALSE,
                 opacity |-> Scalar(800), color |-> Scalar("#ffffff")],
   behavior |-> [spawnArea |-> <<400, 100, 400>>,
                 velocity |-> <<0, 100, 0>>, direction |-> "up"]]

\* pulse bags: frequency in thousandths of a turn per second, the range in
\* thousandths, the phase offset in thousandths of a turn
PulseBags ==
  <<[frequency |-> 1000, intensityRange |-> <<500, 1500>>],
    [frequency |-> 1000, intensityRange |-> <<500, 1500>>, phaseOffset |-> 250],
    [frequency |-> 1200, intensityRange |-> <<200, 4000>>, phaseOffset |-> 0],
    [frequency |-> 500, intensityRange |-> <<0, 1000>>],
    [frequency |-> 2000, intensityRange |-> <<1000, 1000>>, phaseOffset |-> 125]>>

TestPulse(name, pulse) ==
  [name |-> name, type |-> "point", color |-> Scalar(Hex(16777215)),
   intensity |-> Scalar(2000), distance |-> 100000, decay |-> 1000,
   position |-> Scalar(<<0, 50000, 0>>),
   animation |-> [enabled |-> TRUE, mode |-> "pulse", params |-> pulse]]

\* the partial configs typed into tempOverride: a field set to undefined, a
\* particle spec without material before a complete one, a pulse light whose
\* bag is missing or has no intensityRange before a complete one, a light
\* without position before a complete one, a spot and a point light whose
\* colour, intensity and position are pairs
CustomConfigs ==
  {[set |-> EmptyObject, unset |-> {"fog"}],
   [set |-> EmptyObject, unset |-> {"keyLight"}],
   [set |-> EmptyObject, unset |-> {"bloom"}],
   [set |-> [particles |-> Arr(<<[name |-> "bare", count |-> 100], TestSpec>>)],
    unset |-> {}],
   [set |-> [dynamicLights |->
               <<TestPulse("no_bag", EmptyObject),
                 TestPulse("good_pulse", [pulse |-> PulseBags[1]])>>],
    unset |-> {}],
   [set |-> [dynamicLights |->
               <<TestPulse("no_range", [pulse |-> [frequency |-> 1000]]),
                 TestPulse("good_pulse", [pulse |-> PulseBags[1]])>>],
    unset |-> {}],
   [set |-> [dynamicLights |->
               <<Delete(TestPulse("no_position", [pulse |-> PulseBags[1]]), "position"),
                 TestPulse("good_pulse", [pulse |-> PulseBags[1]])>>],
    unset |-> {}],
   [set |-> [dynamicLights |->
               [i \in 1 .. 2 |->
                  [name |-> IF i = 1 THEN "pair_spot" ELSE "pair_point",
                   type |-> IF i = 1 THEN "spot" ELSE "point",
                   color |-> Arr(<<Hex(16711680), Hex(255)>>),
                   intensity |-> Arr(<<500, 3000>>),
                   position |-> Arr(<< <<10000, 20000, 30000>>, <<-10000, 50000, 0>> >>)]]],
    unset |-> {}]}

\* window.moodDebug.tempOverride(customConfig)
TempOverride ==
  \E customConfig \in CustomConfigs :
    \E rnd \in RandomStreams(ParticleDraws(OverrideConfig(World, customConfig))) :
      DebugOp(tempOverride(World, customConfig, rnd), "tempOverride",
              getCurrentMood(World), OverrideConfig(World, customConfig))

\* window.moodDebug.resetToOriginal(), typed or run by the override's timer
ResetToOriginal ==
  \E rnd \in RandomStreams(ParticleDraws(Lookup(debug.originalMood))) :
    DebugOp(resetToOriginal(World, rnd), "resetToOriginal", debug.originalMood,
            Lookup(debug.originalMood))

DebugNext ==
  \/ \E moodName \in {"Krieg", "Kooperativ", "constructor"} : DebugSetMood(moodName)
  \/ AdjustBloom
  \/ AdjustLighting
  \/ AdjustParticles
  \/ TempOverride
  \/ ResetToOriginal
  \/ AnimationFrame

DebugSpec == DebugInit /\ [][DebugNext]_vars

-----------------------------------------------------------------------------
(* Properties *)

\* C1: whenever the current mood is a catalog entry, the live dynamic lights
\* (store entries other than ambient and keyLight, and light objects in the
\* scene other than those two) are as many as the mood's dynamicLights specs,
\* and the live particle systems (in the manager and in the scene) are as many
\* as the mood's particle specs: nothing of an earlier mood is left over.
C1_LiveObjectsMatchMood ==
  (Truthy(currentMood) /\ currentMood.key \in CatalogNames) =>
    LET config == Deref(currentMood)
        nLights == IF Has(config, "dynamicLights") THEN Len(config.dynamicLights) ELSE 0
        nSystems == Len(ParticleConfigs(config))
        sceneLights == {i \in DOMAIN scene.children :
                          /\ scene.children[i].kind = "light"
                          /\ scene.children[i].name \notin {"ambient", "keyLight"}}
        scenePoints == {i \in DOMAIN scene.children : scene.children[i].kind = "points"}
    IN /\ Cardinality(DOMAIN lights \ {"ambient", "keyLight"}) = nLights
       /\ Cardinality(sceneLights) = nLights
       /\ Len(particleSystems) = nSystems
       /\ Cardinality(scenePoints) = nSystems

\* Krieg was applied over a mood that had dynamic lights of its own
C1_Witness ==
  /\ lastOp.op = "applyMood" /\ lastOp.name = "Krieg" /\ ~lastOp.threw
  /\ \E i \in DOMAIN callLog : callLog[i].call = "scene.remove:light"
  /\ Cardinality(DOMAIN lights) = 5
  /\ Len(particleSystems) = 3

\* C2: applying the catalog mood that was applied just before leaves the
\* current config, the number of dynamic lights and particle systems, the
\* ambient and key light, the sun, bloom, fog and every dynamic light's
\* intensity and position as the first application left them.
C2_ApplyTwiceIsApplyOnce ==
  [][(/\ lastOp.op = "applyMood" /\ lastOp.name \in CatalogNames
      /\ lastOp'.op = "applyMood" /\ lastOp'.name = lastOp.name
      /\ ops' = ops + 1)
     => /\ currentMood' = currentMood
        /\ lights' = lights
        /\ sunMesh' = sunMesh
        /\ bloomPass' = bloomPass
        /\ scene'.fog = scene.fog
        /\ Len(particleSystems') = Len(particleSystems)
        /\ Len(scene'.children) = Len(scene.children)]_vars

\* Kooperativ was applied twice in a row and its eight spots are live
C2_Witness ==
  /\ lastOp.op = "applyMood" /\ lastOp.name = "Kooperativ" /\ lastOp.repeat
  /\ Cardinality(DOMAIN lights) = 10
  /\ Len(particleSystems) = 1

\* C3: applyMood with a name that is not in the catalog does not throw and
\* changes nothing: the current config, the scene (background, fog, objects),
\* the lights, the particle systems, bloom and the vegetation stay as they
\* were, and no manager's applyMood is called.
C3_UnknownNameIsNoOp ==
  [][(/\ lastOp'.op = "applyMood" /\ ops' = ops + 1
      /\ lastOp'.name \notin CatalogNames)
     => /\ ~lastOp'.threw
        /\ currentMood' = currentMood
        /\ scene' = scene
        /\ lights' = lights
        /\ sunMesh' = sunMesh
        /\ particleSystems' = particleSystems
        /\ bloomPass' = bloomPass
        /\ landscape' = landscape
        /\ \A i \in DOMAIN callLog' :
             callLog'[i].call \notin {"lightManager.applyMood", "effectManager.applyMood",
                                      "landscapeManager.applyMood"}]_vars

C5_CurrentMoodIsCatalogEntry ==
  /\ [](ops = 0 => currentMood = Null)
  /\ [][(currentMood = Null
         /\ ~(lastOp'.op = "applyMood" /\ lastOp'.name \in CatalogNames))
        => currentMood' = Null]_vars
  /\ [](Truthy(currentMood) => currentMood.key \in CatalogNames)
  /\ []((lastOp.op = "applyMood" /\ lastOp.name \in CatalogNames)
          => currentMood = Ref(lastOp.name))
  /\ [][Truthy(currentMood) => Truthy(currentMood')]_vars

\* C6: an applyMood with a catalog name sets the background, then the fog,
\* then calls lightManager.applyMood, effectManager.applyMood and
\* landscapeManager.applyMood, once each, in this order, with that mood's
\* config.
C6_ApplyOrder ==
  (lastOp.op = "applyMood" /\ lastOp.name \in CatalogNames) =>
    LET Step(e) == e.call \in {"scene.background", "scene.fog",
                               "lightManager.applyMood", "effectManager.applyMood",
                               "landscapeManager.applyMood"}
    IN SelectSeq(callLog, Step) =
         << Call("scene.background", lastOp.name, -1),
            Call("scene.fog", lastOp.name, -1),
            Call("lightManager.applyMood", lastOp.name, -1),
            Call("effectManager.applyMood", lastOp.name, -1),
            Call("landscapeManager.applyMood", lastOp.name, -1) >>

\* Transzendent was applied and its objects were built
C6_Witness ==
  /\ lastOp.op = "applyMood" /\ lastOp.name = "Transzendent" /\ ~lastOp.threw
  /\ currentMood = Ref("Transzendent")
  /\ \E i \in DOMAIN callLog : callLog[i].call = "scene.add:points"

\* C7: every frame ends with exactly one composer.render(), made after all
\* updates; a frame with a null current config makes no other call.
C7_RenderEveryFrame ==
  lastOp.op = "animate" =>
    /\ Len(callLog) > 0
    /\ callLog[Len(callLog)].call = "composer.render"
    /\ Cardinality({i \in DOMAIN callLog : callLog[i].call = "composer.render"}) = 1
    /\ ~lastOp.threw
    /\ currentMood = Null => callLog = <<Call("composer.render", "", -1)>>

\* C8: a frame with a non-null current config calls, once each and in this
\* order, the camera manager, the controls, lightManager.update,
\* effectManager.update, landscapeManager.update, the UI update, the
\* mood-specific background animation and composer.render; the updates that
\* take a config get the current one, those that take the elapsed time get
\* this frame's.
C8_FrameOrder ==
  (lastOp.op = "animate" /\ Truthy(currentMood)) =>
    LET n == NameOf(Deref(currentMood))
        t == lastOp.elapsedTime
    IN callLog = << Call("cameraManager.update", "", t),
                    Call("controls.update", "", -1),
                    Call("lightManager.update", n, t),
                    Call("effectManager.update", "", lastOp.deltaTime),
                    Call("landscapeManager.update", n, t),
                    Call("uiManager.update", n, t),
                    Call("applySpecialMoodAnimations", n, t),
                    Call("composer.render", "", -1) >>

-----------------------------------------------------------------------------
(* Pulse lights: tempOverride installs one pulse light, then frames run *)

PulseOverride(base, bag) ==
  [set |-> [dynamicLights |->
              <<[TestPulse("pulse", [pulse |-> bag]) EXCEPT !.intensity = Scalar(base)]>>],
   unset |-> {}]

PulseInit ==
  /\ \E base \in {2000, 80000}, k \in DOMAIN PulseBags :
       \E rnd \in RandomStreams(ParticleDraws(Harmonisch)) :
         IsWorld(tempOverride(AppStarted(rnd), PulseOverride(base, PulseBags[k]), rnd))
  /\ clock = [running |-> TRUE, elapsedTime |-> 0, frames |-> 1]
  /\ rafPending = 1
  /\ lastOp = Op("tempOverride", "Harmonisch", FALSE, FALSE, 0, 0)
  /\ ops = 0

PulseSpec == PulseInit /\ [][AnimationFrame]_vars

-----------------------------------------------------------------------------
(* Pulse lights: properties *)

\* C11: after a frame at elapsed time t the intensity of a live pulse light
\* is baseIntensity * (min + (max - min) * (sin(2 pi (t * frequency +
\* phaseOffset)) + 1) / 2), whatever its intensity was before; with
\* frequency 1, range [0.5, 1.5] and no phase offset that is 1.5 times the
\* base at t = 0.25 s and 0.5 times the base at t = 0.75 s
C11_PulseIntensityFormula ==
  (lastOp.op = "animate" /\ ~lastOp.threw) =>
    \A lightConfig \in {Deref(currentMood).dynamicLights[i] :
                          i \in 1 .. Len(Deref(currentMood).dynamicLights)} :
      LET bag == lightConfig.animation.params.pulse
          base == lightConfig.intensity.v[1]
          t == lastOp.elapsedTime
          x == (t * bag.frequency) \div 1000
               + (IF Has(bag, "phaseOffset") THEN bag.phaseOffset ELSE 0)
          min == bag.intensityRange[1]
          max == bag.intensityRange[2]
          intensity == lights[lightConfig.name].intensity
          half == (SinTurn(x) + 1000) \div 2
      IN /\ intensity = (base * (min + ((max - min) * half) \div 1000)) \div 1000
         /\ bag = PulseBags[1] =>
              /\ t = 250 => 2 * intensity = 3 * base
              /\ t = 750 => 2 * intensity = base

\* a frame at t = 0.75 s has left the frequency-1 light at half its base
C11_Witness ==
  /\ lastOp.op = "animate" /\ ~lastOp.threw /\ lastOp.elapsedTime = 750
  /\ clock.frames = 4
  /\ "pulse" \in DOMAIN lights
  /\ Deref(currentMood).dynamicLights[1].animation.params.pulse = PulseBags[1]
  /\ lights["pulse"].intensity = 1000

-----------------------------------------------------------------------------
(* Mood switches: properties *)

\* C12: after applyMood for a catalog mood the bloom pass holds the mood's
\* threshold, strength and radius, scene.fog and scene.background hold the
\* mood's fog and sky, and a mood without dynamicLights (Harmonisch, bloom
\* threshold 0.85) leaves no dynamic light; the composer keeps the passes it
\* was built with
C12_BloomFogSkyMatchMood ==
  /\ composer.passes = InitialComposer.passes
  /\ (lastOp.op = "applyMood" /\ lastOp.name \in CatalogNames) =>
       LET config == moodDefinitions[lastOp.name]
       IN /\ ~lastOp.threw
          /\ bloomPass = [threshold |-> config.bloom.threshold,
                          strength |-> config.bloom.strength,
                          radius |-> config.bloom.radius]
          /\ scene.fog = [color |-> Css(config.fog.color), density |-> config.fog.density]
          /\ scene.background = Css(config.skyColor)
          /\ ~Has(config, "dynamicLights") =>
               /\ DOMAIN lights = {"ambient", "keyLight"}
               /\ \A i \in 1 .. Len(scene.children) :
                    scene.children[i].kind \in {"light", "target"} =>
                      scene.children[i].name \in {"ambient", "keyLight"}
          /\ lastOp.name = "Harmonisch" => bloomPass.threshold = 850

\* Harmonisch has been applied over a mood that had dynamic lights
C12_Witness ==
  /\ lastOp.op = "applyMood" /\ lastOp.name = "Harmonisch"
  /\ \E i \in 1 .. Len(callLog) : callLog[i].call = "scene.remove:light"
  /\ bloomPass.threshold = 850
  /\ scene.fog.density = Harmonisch.fog.density
  /\ DOMAIN lights = {"ambient", "keyLight"}

\* C13: in one applyMood every dynamic light that was live (and its target,
\* for a spot light) is removed from the scene and disposed before the first
\* light of the new mood is added, and every particle system that was live is
\* removed and disposed before the first new one is added
C13_OldGenerationGoesFirst ==
  [][(lastOp'.op = "applyMood" /\ lastOp'.name \in CatalogNames) =>
       /\ \A key \in DynamicLightKeys(lights) :
            /\ \E i \in 1 .. Len(callLog') :
                 callLog'[i] = Call("scene.remove:light", key, -1)
            /\ \E i \in 1 .. Len(callLog') :
                 callLog'[i] = Call("light.dispose", key, -1)
            /\ Has(lights[key], "target") =>
                 \E i \in 1 .. Len(callLog') :
                   callLog'[i] = Call("scene.remove:target", key, -1)
       /\ \A k \in 1 .. Len(particleSystems) :
            /\ \E i \in 1 .. Len(callLog') :
                 callLog'[i] = Call("scene.remove:points", particleSystems[k].points.name, -1)
            /\ \E i \in 1 .. Len(callLog') :
                 callLog'[i] = Call("points.dispose", particleSystems[k].points.name, -1)
       /\ \A j \in 1 .. Len(callLog') :
            /\ callLog'[j].call \in {"scene.add:light", "scene.add:target"} =>
                 \A i \in 1 .. Len(callLog') :
                   callLog'[i].call \in {"scene.remove:light", "scene.remove:target",
                                         "light.dispose"} => i < j
            /\ callLog'[j].call = "scene.add:points" =>
                 \A i \in 1 .. Len(callLog') :
                   callLog'[i].call \in {"scene.remove:points", "points.dispose"} => i < j]_vars

\* a switch that removed a spot light with its target and a particle system,
\* and added lights and particle systems of its own
C13_Witness ==
  /\ lastOp.op = "applyMood" /\ lastOp.name \in CatalogNames
  /\ \E i, j, k, l \in 1 .. Len(callLog) :
       /\ callLog[i].call = "scene.remove:target"
       /\ callLog[j].call = "scene.add:light" /\ i < j
       /\ callLog[k].call = "scene.remove:points"
       /\ callLog[l].call = "scene.add:points" /\ k < l

\* C14: after the application's dispose() the scene holds no dynamic light,
\* light target or particle system: of the objects the light and effect
\* managers own, only those built at construction are left
C14_NothingLeftAfterDispose ==
  lastOp.op = "dispose" =>
    /\ particleSystems = <<>>
    /\ DOMAIN lights = DOMAIN InitialLights
    /\ \A i \in 1 .. Len(scene.children) :
         scene.children[i].kind \in {"light", "target", "points"} =>
           \E j \in 1 .. Len(InitialLightChildren) :
             scene.children[i] = InitialLightChildren[j]

-----------------------------------------------------------------------------
(* Incomplete configs: properties of the debug console's runs *)

\* C15: an applyMood whose catalog entry lacks fog, keyLight, bloom or the
\* material of a particle spec does not throw and changes nothing: the
\* current mood, background, fog, lights, particle systems and bloom stay
C15_IncompleteEntryIsNoOp ==
  [][(/\ lastOp'.op \in {"tempOverride", "adjustBloom", "adjustLighting", "adjustParticles"}
      /\ \/ \E f \in {"fog", "keyLight", "bloom"} : ~Has(lastOp'.config, f)
         \/ \E k \in 1 .. Len(ParticleConfigs(lastOp'.config)) :
              ~Has(ParticleConfigs(lastOp'.config)[k], "material"))
     => /\ ~lastOp'.threw
        /\ UNCHANGED <<currentMood, scene, lights, sunMesh, particleSystems, bloomPass>>]_vars

\* C16: a frame does not throw; a live light whose enabled animation names a
\* mode without a parameter bag, or with a bag that lacks the mode's fields,
\* keeps its state, and the pulse lights after it in the list are animated
C16_BadAnimationIsSkipped ==
  [][lastOp'.op = "animate" =>
       /\ ~lastOp'.threw
       /\ LET config == Deref(currentMood)
          IN (Truthy(config) /\ Has(config, "dynamicLights")) =>
               \A i \in 1 .. Len(config.dynamicLights) :
                 LET lightConfig == config.dynamicLights[i]
                     bags == lightConfig.animation.params
                 IN (/\ lightConfig.name \in DOMAIN lights
                     /\ Has(lightConfig, "animation")
                     /\ lightConfig.animation.enabled
                     /\ lightConfig.animation.mode = "pulse") =>
                      IF Has(bags, "pulse") /\ Has(bags.pulse, "intensityRange")
                         /\ Has(bags.pulse, "frequency")
                      THEN lights'[lightConfig.name] =
                             updatePulseLight(lights[lightConfig.name], lightConfig,
                                              bags.pulse, lastOp'.elapsedTime)
                      ELSE lights'[lightConfig.name] = lights[lightConfig.name]]_vars

\* C17: when the entry applied has a particle spec with count 0 or without
\* material, the call does not throw, builds a system for each of the other
\* specs and for none of those, and sets the bloom pass
C17_EmptyOrBareSpecIsSkipped ==
  (/\ "config" \in DOMAIN lastOp
   /\ Truthy(lastOp.config)
   /\ \A f \in {"fog", "ambient", "keyLight", "sun", "bloom", "particles"} :
        Has(lastOp.config, f))
  => LET specs == ParticleConfigs(lastOp.config)
         built == {k \in 1 .. Len(specs) : Has(specs[k], "material") /\ specs[k].count > 0}
     IN /\ ~lastOp.threw
        /\ Len(particleSystems) = Cardinality(built)
        /\ bloomPass = [threshold |-> lastOp.config.bloom.threshold,
                        strength |-> lastOp.config.bloom.strength,
                        radius |-> lastOp.config.bloom.radius]

\* C18: the catalog is constant: whatever handler has run, moodStyles holds
\* the entries it was defined with, each with every field as defined
C18_CatalogIsConstant == moodStyles = moodDefinitions

-----------------------------------------------------------------------------
(* Songs: RFIDMusicManager.playSong, AudioManager.play and the event bus *)

\* gameEventBus.emit('mood:change', {moodName, reason: 'rfid-song'}): the
\* listener of App.setupApplicationIntegration calls applyMood at once, and
\* the bus catches what the listener throws
emit_moodChange(w, moodName, rnd) ==
  [MoodManager_applyMood(Logged(w, "emit:mood:change", moodName, -1), moodName, rnd)
     EXCEPT !.threw = FALSE]

\* setChannelVolume(AudioChannel.MUSIC, volume), in thousandths
setChannelVolume_MUSIC(w, volume) ==
  [w EXCEPT !.audio.music = IF volume < 0 THEN 0 ELSE Min(1000, volume)]

\* stopInfoAudio(): the Howl is stopped and the field cleared; the onstop
\* callback of the stopped Howl runs later, from a timer of the library
stopInfoAudio(w) ==
  IF w.audio.currentInfoAudio = Null THEN w
  ELSE Logged([w EXCEPT !.audio.currentInfoAudio = Null, !.audio.infoStopPending = @ + 1],
              "currentInfoAudio.stop", "", -1)

\* onInfoAudioComplete(): the music volume is restored if a song is playing
onInfoAudioComplete(w) ==
  LET w1 == [w EXCEPT !.audio.currentInfoAudio = Null]
      w2 == IF w1.audio.howl # "none" /\ w1.audio.isPlaying
            THEN setChannelVolume_MUSIC(w1, 1000) ELSE w1
  IN Logged(w2, "emit:audio:info-ended", "", -1)

\* playInfoAudio(infoUrl): the music is ducked if a song is playing
playInfoAudio(w, infoUrl) ==
  LET w1 == stopInfoAudio(w)
      w2 == IF w1.audio.howl # "none" /\ w1.audio.isPlaying
            THEN setChannelVolume_MUSIC(w1, 100) ELSE w1
  IN Logged([w2 EXCEPT !.audio.currentInfoAudio = [url |-> infoUrl]],
            "currentInfoAudio.play", infoUrl, -1)

\* AudioManager.stop() with the onstop callback of a song that was playing,
\* whose 'audio:stop' reaches the listener that stops the info audio too
AudioManager_stop(w) ==
  IF w.audio.howl # "none" /\ w.audio.isPlaying
  THEN stopInfoAudio(Logged([w EXCEPT !.audio.isPlaying = FALSE], "emit:audio:stop",
                            w.audio.currentSong.id, -1))
  ELSE w

\* AudioManager.play(song): without an audioUrl an error is logged and
\* nothing is loaded; otherwise the state turns to loading and a Howl is
\* created, whose load settles later with onload or onloaderror
AudioManager_play(w, song) ==
  IF song.audioUrl = "" THEN Logged(w, "audioLogger.error", song.id, -1)
  ELSE LET w1 == AudioManager_stop(w)
       IN Logged([w1 EXCEPT !.audio.isLoading = TRUE, !.audio.currentSong = song,
                            !.audio.loading = Append(@, song), !.audio.howl = "loading"],
                 "new Howl", song.id, -1)

\* RFIDMusicManager.playSong(songInfo): 'song:selected' reaches
\* AudioManager.play through the listener AudioManager registers, then
\* 'mood:change' is emitted in the same call
playSong(w, songInfo, rnd) ==
  emit_moodChange(
    AudioManager_play(
      Logged(w, "emit:song:selected",
             w.rfid.selection.tree.name \o "+" \o w.rfid.selection.plant.name, -1),
      songInfo),
    songInfo.mood, rnd)

\* the loads still in flight once load i has settled
Settled(w, i) ==
  [w EXCEPT !.audio.loading = SubSeq(@, 1, i - 1) \o SubSeq(@, i + 1, Len(@)),
            !.audio.isLoading = FALSE]

\* whether load i is the load of the Howl this.currentSong holds: that Howl
\* is the one created last
IsCurrentHowl(w, i) == w.audio.howl = "loading" /\ i = Len(w.audio.loading)

\* this.currentSong?.play() with the onplay callback of a Howl that has
\* loaded; a Howl still loading starts when its own load arrives
currentSong_play(w) ==
  IF w.audio.howl = "none" THEN w
  ELSE Logged([w EXCEPT !.audio.isPlaying = @ \/ w.audio.howl = "loaded"],
              "currentSong.play", w.audio.currentSong.id, -1)

\* the onload callback AudioManager.play hands to the Howl of load i:
\* this.currentSong?.play() starts the Howl created last, and 'mood:change'
\* carries the mood of the song the callback was made for
onload(w, i, rnd) ==
  emit_moodChange(
    currentSong_play([Settled(w, i) EXCEPT
                        !.audio.howl = IF IsCurrentHowl(w, i) THEN "loaded" ELSE @]),
    w.audio.loading[i].mood, rnd)

\* the onloaderror callback AudioManager.play hands to the Howl of load i
onloaderror(w, i) ==
  Logged([Settled(w, i) EXCEPT !.audio.howl = IF IsCurrentHowl(w, i) THEN "failed" ELSE @],
         "emit:song:error", w.audio.loading[i].id, -1)

\* plants.json: two trees with a song, one without, and two plants; the
\* ids of a card are the digits its chip sends and a printed label
Plants ==
  <<[key |-> "pappel", name |-> "Pappel", type |-> "tree",
     ids |-> {<<"0", "0", "0", "9", "8", "0", "6", "8", "6", "7">>,
              <<"B", "0", "0", "1">>}],
    [key |-> "robinie", name |-> "Robinie", type |-> "tree",
     ids |-> {<<"0", "0", "0", "9", "8", "1", "2", "1", "3", "4">>}],
    [key |-> "eiche", name |-> "Eiche", type |-> "tree",
     ids |-> {<<"0", "0", "0", "9", "8", "0", "0", "0", "0", "1">>}],
    [key |-> "weizen", name |-> "Weizen", type |-> "plant",
     ids |-> {<<"0", "0", "0", "9", "8", "1", "2", "6", "7", "1">>}],
    [key |-> "dinkel", name |-> "Dinkel", type |-> "plant",
     ids |-> {<<"0", "0", "0", "9", "8", "1", "1", "4", "0", "9">>}]>>

\* songs.json in file order: two songs with an audio file, one whose entry
\* has no audioUrl
Songs ==
  <<[id |-> "song_krieg", audioUrl |-> "krieg.mp3", mood |-> "Krieg",
     tree |-> "pappel", plant |-> "weizen"],
    [id |-> "song_kooperativ", audioUrl |-> "kooperativ.mp3", mood |-> "Kooperativ",
     tree |-> "pappel", plant |-> "dinkel"],
    [id |-> "song_silent", audioUrl |-> "", mood |-> "Neutral",
     tree |-> "robinie", plant |-> "weizen"]>>

\* the PlantInfo stored under the logical name key
PlantInfo(key) == CHOOSE info \in {Plants[i] : i \in DOMAIN Plants} : info.key = key

\* a complete selection finds songInfo: tryPlaySong calls playSong
SongSelected(songInfo) ==
  /\ ops < MaxSongOps
  /\ ops' = ops + 1
  /\ \E rnd \in RandomStreams(ParticleDraws(Lookup(songInfo.mood))) :
       /\ Commit(playSong([World EXCEPT !.rfid.selection =
                                          [tree |-> PlantInfo(songInfo.tree),
                                           plant |-> PlantInfo(songInfo.plant)]],
                          songInfo, rnd))
       /\ lastOp' = Op("playSong", songInfo.id, FALSE, FALSE, 0, 0)
       /\ UNCHANGED <<clock, rafPending>>

\* the audio file of load i has arrived
AudioLoaded(i) ==
  /\ ops < MaxSongOps
  /\ i \in DOMAIN audio.loading
  /\ ops' = ops + 1
  /\ \E rnd \in RandomStreams(ParticleDraws(Lookup(audio.loading[i].mood))) :
       /\ Commit(onload(World, i, rnd))
       /\ lastOp' = Op("onload", audio.loading[i].id, FALSE, FALSE, 0, 0)
       /\ UNCHANGED <<clock, rafPending>>

\* the audio file of load i could not be loaded
AudioLoadError(i) ==
  /\ ops < MaxSongOps
  /\ i \in DOMAIN audio.loading
  /\ ops' = ops + 1
  /\ Commit(onloaderror(World, i))
  /\ lastOp' = Op("onloaderror", audio.loading[i].id, FALSE, FALSE, 0, 0)
  /\ UNCHANGED <<clock, rafPending>>

SongNext ==
  \/ \E k \in DOMAIN Songs : SongSelected(Songs[k])
  \/ \E i \in 1 .. MaxSongOps : AudioLoaded(i)
  \/ \E i \in 1 .. MaxSongOps : AudioLoadError(i)
  \/ AnimationFrame

\* the running application (DebugInit) with tags being put on the reader
SongSpec == DebugInit /\ [][SongNext]_vars

-----------------------------------------------------------------------------
(* Info audio *)

\* a handler of the audio manager ended in world w
AudioOp(w, op, name) ==
  /\ ops < MaxSongOps
  /\ ops' = ops + 1
  /\ Commit(w)
  /\ lastOp' = Op(op, name, FALSE, FALSE, 0, 0)
  /\ UNCHANGED <<clock, rafPending>>

\* 'audio:play-info' with or without an infoUrl
PlayInfo(infoUrl) ==
  AudioOp(IF infoUrl = "" THEN World ELSE playInfoAudio(World, infoUrl),
          "playInfoAudio", infoUrl)

\* 'audio:stop-info'
StopInfo == AudioOp(stopInfoAudio(World), "stopInfoAudio", "")

\* the onend callback of the info Howl
InfoEnded ==
  /\ audio.currentInfoAudio # Null
  /\ AudioOp(onInfoAudioComplete(World), "info:onend", audio.currentInfoAudio.url)

\* the onloaderror callback of the info Howl
InfoLoadError ==
  /\ audio.currentInfoAudio # Null
  /\ AudioOp(onInfoAudioComplete(Logged(World, "audioLogger.error", "", -1)),
             "info:onloaderror", audio.currentInfoAudio.url)

\* the onstop callback of an info Howl that was stopped
InfoStopped ==
  /\ audio.infoStopPending > 0
  /\ AudioOp(onInfoAudioComplete([World EXCEPT !.audio.infoStopPending = @ - 1]),
             "info:onstop", "")

\* 'audio:toggle-play': pause() with its onpause callback, resume() with
\* the onplay callback, or a request for the current song
TogglePlay ==
  AudioOp(IF audio.isPlaying
          THEN Logged([World EXCEPT !.audio.isPlaying = FALSE], "currentSong.pause", "", -1)
          ELSE IF audio.howl # "none" THEN currentSong_play(World)
          ELSE Logged(World, "emit:rfid:request-current-song", "", -1),
          "toggle-play", "")

\* 'audio:stop': stop() and stopInfoAudio()
StopRequested == AudioOp(stopInfoAudio(AudioManager_stop(World)), "audio:stop", "")

\* the onend callback of the song: this.currentSong is cleared
MusicEnded ==
  /\ audio.isPlaying
  /\ audio.howl = "loaded"
  /\ AudioOp(Logged([World EXCEPT !.audio.isPlaying = FALSE, !.audio.howl = "none"],
                    "emit:audio:ended", audio.currentSong.id, -1),
             "onend", audio.currentSong.id)

\* the running application with no song yet, or with a song that was
\* selected, has loaded and is playing
InfoInit ==
  /\ \/ \E rnd \in RandomStreams(ParticleDraws(Harmonisch)) : IsWorld(AppStarted(rnd))
     \/ \E rnd \in RandomStreams(ParticleDraws(Harmonisch)),
           rndSong \in RandomStreams(ParticleDraws(Kooperativ)) :
          LET w == AppStarted(rnd)
              selected == playSong([w EXCEPT !.rfid.selection =
                                               [tree |-> PlantInfo(Songs[2].tree),
                                                plant |-> PlantInfo(Songs[2].plant)]],
                                   Songs[2], rndSong)
          IN IsWorld([onload(selected, 1, rndSong) EXCEPT !.log = <<>>])
  /\ clock = [running |-> TRUE, elapsedTime |-> 0, frames |-> 1]
  /\ rafPending = 1
  /\ lastOp = Op("animate", "Harmonisch", FALSE, FALSE, 0, 0)
  /\ ops = 0

InfoNext ==
  \/ \E infoUrl \in {"", "pappel_info.mp3", "weizen_info.mp3"} : PlayInfo(infoUrl)
  \/ StopInfo
  \/ InfoEnded
  \/ InfoLoadError
  \/ InfoStopped
  \/ TogglePlay
  \/ StopRequested
  \/ MusicEnded

InfoSpec == InfoInit /\ [][InfoNext]_vars

-----------------------------------------------------------------------------
(* AssetManager and the landscape requests *)

\* the OBJ files asked for
AssetFiles == {"tree_oak.obj", "tree_poplar.obj", "crops_cornStageA.obj"}

\* loadAsset(fileName) up to its first await: a cached asset resolves with a
\* clone, a file already loading joins that load, any other file starts one
loadAsset(w, fileName) ==
  IF fileName \in w.assets.cache
  THEN [w EXCEPT !.assets.calls =
          Append(@, [file |-> fileName, joined |-> FALSE, outcome |-> "group"])]
  ELSE IF fileName \in w.assets.currentLoads
  THEN [w EXCEPT !.assets.calls =
          Append(@, [file |-> fileName, joined |-> TRUE, outcome |-> "pending"])]
  ELSE [w EXCEPT !.assets.calls =
          Append(@, [file |-> fileName, joined |-> FALSE, outcome |-> "pending"]),
                 !.assets.currentLoads = @ \cup {fileName}]

\* the promise of performAssetLoad(fileName) settles: the call that started
\* the load continues in its try / catch / finally, a call that joined it
\* gets what the promise gives
loadSettled(w, fileName, loaded) ==
  LET calls == w.assets.calls
      Outcome(call) == IF loaded THEN "group"
                       ELSE IF call.joined THEN "rejected"
                       ELSE "placeholder"
  IN [w EXCEPT !.assets.calls =
                 [i \in DOMAIN calls |->
                    IF calls[i].file = fileName /\ calls[i].outcome = "pending"
                    THEN [calls[i] EXCEPT !.outcome = Outcome(calls[i])]
                    ELSE calls[i]],
               !.assets.cache = IF loaded THEN @ \cup {fileName} ELSE @,
               !.assets.currentLoads = @ \ {fileName}]

\* generateLandscapeFromSelection(data) up to its await: geometry and
\* material of the tree asset, then of the plant asset, are asked for
requestLandscape(w, treeAsset, plantAsset) ==
  LET w1 == Logged(w, "emit:landscape:generation-started", treeAsset, -1)
      w2 == loadAsset(loadAsset(loadAsset(loadAsset(w1, treeAsset), treeAsset),
                                plantAsset), plantAsset)
      n == Len(w.assets.calls)
  IN [w2 EXCEPT !.assets.requests =
        Append(@, [calls |-> <<n + 1, n + 2, n + 3, n + 4>>, done |-> FALSE])]

\* the material class extractMaterial finds in what a call resolved with:
\* the placeholder's MeshStandardMaterial or the material of the OBJ loader
MaterialKindOf(call) ==
  IF call.outcome = "placeholder" THEN "MeshStandardMaterial" ELSE "MeshPhongMaterial"

\* whether Promise.all of request r has settled: one call rejected, or all
\* four resolved
CanResume(w, r) ==
  LET calls == [k \in 1 .. 4 |-> w.assets.calls[w.assets.requests[r].calls[k]]]
  IN \/ \E k \in 1 .. 4 : calls[k].outcome = "rejected"
     \/ \A k \in 1 .. 4 : calls[k].outcome \in {"group", "placeholder"}

\* generateLandscapeFromSelection(data) after its await
resumeLandscape(w, r) ==
  LET calls == [k \in 1 .. 4 |-> w.assets.calls[w.assets.requests[r].calls[k]]]
      w1 == [w EXCEPT !.assets.requests[r].done = TRUE]
  IN IF \E k \in 1 .. 4 : calls[k].outcome = "rejected"
     THEN Logged(Logged(w1, "console.error", "", -1),
                 "emit:landscape:generation-completed", "failure", -1)
     ELSE generateLandscapeFromSelection(w1, MaterialKindOf(calls[2]),
                                         MaterialKindOf(calls[4]))

\* n calls of Math.random() that all return the low end of the range; the
\* particles it places play no part in the loading of assets
LowStream(n) == [i \in 1 .. n |-> RandomDraws[1]]

\* a step of the asset manager or the landscape manager ended in world w
AssetOp(w, op, name) ==
  /\ ops < MaxAssetOps
  /\ ops' = ops + 1
  /\ Commit(w)
  /\ lastOp' = Op(op, name, FALSE, FALSE, 0, 0)
  /\ UNCHANGED <<clock, rafPending>>

\* getSelectionAsset('tree_oak.obj')
LoadAsset == AssetOp(loadAsset(World, "tree_oak.obj"), "loadAsset", "tree_oak.obj")

\* the OBJ loader reports fileName as loaded
ObjLoaded(fileName) ==
  /\ fileName \in assets.currentLoads
  /\ AssetOp(loadSettled(World, fileName, TRUE), "loaded", fileName)

\* the OBJ loader reports an error for fileName
ObjFailed(fileName) ==
  /\ fileName \in assets.currentLoads
  /\ AssetOp(loadSettled(World, fileName, FALSE), "failed", fileName)

\* 'landscape:generate-from-selection' with the assets of a tree and a plant
LandscapeRequested(treeAsset) ==
  AssetOp(requestLandscape(World, treeAsset, "crops_cornStageA.obj"),
          "requestLandscape", treeAsset)

\* request r continues after its await
LandscapeResumed(r) ==
  /\ r \in DOMAIN assets.requests
  /\ ~assets.requests[r].done
  /\ CanResume(World, r)
  /\ AssetOp(resumeLandscape(World, r), "resumeLandscape", "")

\* 'mood:change' while assets load
MoodChanged(moodName) ==
  AssetOp(emit_moodChange(World, moodName,
                          LowStream(ParticleDraws(LookupIn(moodDefinitions, moodName)))),
          "applyMood", moodName)

\* the running application while loadInitialVegetation waits for its assets
AssetInit ==
  /\ IsWorld([requestLandscape(AppStarted(LowStream(ParticleDraws(Harmonisch))),
                               "tree_oak.obj", "crops_cornStageA.obj")
                EXCEPT !.log = <<>>])
  /\ clock = [running |-> TRUE, elapsedTime |-> 0, frames |-> 1]
  /\ rafPending = 1
  /\ lastOp = Op("animate", "Harmonisch", FALSE, FALSE, 0, 0)
  /\ ops = 0

AssetNext ==
  \/ LoadAsset
  \/ \E fileName \in AssetFiles : ObjLoaded(fileName)
  \/ \E fileName \in AssetFiles : ObjFailed(fileName)
  \/ \E treeAsset \in {"tree_oak.obj", "tree_poplar.obj"} : LandscapeRequested(treeAsset)
  \/ \E r \in 1 .. MaxAssetOps + 1 : LandscapeResumed(r)
  \/ MoodChanged("Krieg")

AssetSpec == AssetInit /\ [][AssetNext]_vars

-----------------------------------------------------------------------------
(* Popup *)

\* clearAutoHideTimer()
clearAutoHideTimer(w) ==
  IF w.ui.autoHideTimeout = 0 THEN w
  ELSE [w EXCEPT !.ui.timers = @ \ {w.ui.autoHideTimeout}, !.ui.autoHideTimeout = 0]

\* startAutoHideTimer()
startAutoHideTimer(w) ==
  LET w1 == clearAutoHideTimer(w)
  IN [w1 EXCEPT !.ui.autoHideTimeout = w1.ui.nextTimer,
                !.ui.timers = @ \cup {w1.ui.nextTimer},
                !.ui.nextTimer = @ + 1]

\* showPopup()
showPopup(w) ==
  IF w.ui.isVisible THEN w
  ELSE Logged(startAutoHideTimer([w EXCEPT !.ui.isVisible = TRUE]),
              "emit:ui:popup-opened", "", -1)

\* switchToInfoMode()
switchToInfoMode(w) == [w EXCEPT !.ui.currentMode = "info"]

\* switchToMainMode(): info audio that is playing is stopped
switchToMainMode(w) ==
  LET w1 == [w EXCEPT !.ui.currentMode = "main"]
  IN IF w1.ui.isInfoPlaying
     THEN [stopInfoAudio(Logged(w1, "emit:audio:stop-info", "", -1))
             EXCEPT !.ui.isInfoPlaying = FALSE]
     ELSE w1

\* variant: the timer is left running
hidePopup_KeepTimer(w) ==
  IF ~w.ui.isVisible THEN w
  ELSE LET w1 == [w EXCEPT !.ui.isVisible = FALSE]
           w2 == IF w1.ui.currentMode = "info" THEN switchToMainMode(w1) ELSE w1
       IN Logged(w2, "emit:ui:popup-closed", "", -1)

\* hidePopup()
hidePopup(w) ==
  IF ~w.ui.isVisible THEN w
  ELSE LET w1 == clearAutoHideTimer([w EXCEPT !.ui.isVisible = FALSE])
           w2 == IF w1.ui.currentMode = "info" THEN switchToMainMode(w1) ELSE w1
       IN Logged(w2, "emit:ui:popup-closed", "", -1)

\* toggleInfoAudio(): the song on display has an infoUrl
toggleInfoAudio(w) ==
  IF w.ui.isInfoPlaying
  THEN [stopInfoAudio(Logged(w, "emit:audio:stop-info", "", -1))
          EXCEPT !.ui.isInfoPlaying = FALSE]
  ELSE [playInfoAudio(Logged(w, "emit:audio:play-info", "", -1), "pappel_info.mp3")
          EXCEPT !.ui.isInfoPlaying = TRUE]

\* UIManager.dispose()
UIManager_dispose(w) ==
  LET w1 == IF w.ui.isInfoPlaying
            THEN stopInfoAudio(Logged(w, "emit:audio:stop-info", "", -1)) ELSE w
  IN [clearAutoHideTimer(w1) EXCEPT !.ui.disposed = TRUE]

\* a handler of the UI manager ended in world w
UiOp(w, op) ==
  /\ ops < MaxUiOps
  /\ ops' = ops + 1
  /\ Commit(w)
  /\ lastOp' = Op(op, "", ui.isVisible, FALSE, 0, 0)
  /\ UNCHANGED <<clock, rafPending>>

\* a click on the floating action button
FabClick == UiOp(showPopup(World), "showPopup")

\* 'ui:show-music-player'
ShowMusicPlayer == UiOp(showPopup(World), "showPopup")

\* a click outside popup and button
OutsideClick == UiOp(IF ui.isVisible THEN hidePopup(World) ELSE World, "outside-click")

\* RFID_DISPLAY_DURATION ms after it was set, timer t fires
AutoHideExpired(t) ==
  /\ t \in ui.timers
  /\ UiOp(hidePopup([World EXCEPT !.ui.timers = @ \ {t}]), "timer")

\* a click on the info button of the visible popup
InfoClick ==
  /\ ui.isVisible /\ ui.currentMode = "main"
  /\ UiOp(switchToInfoMode(World), "info-click")

\* a click on the back button of the visible popup
BackClick ==
  /\ ui.isVisible /\ ui.currentMode = "info"
  /\ UiOp(switchToMainMode(World), "back-click")

\* a click on the speech button of the visible popup
SpeechClick ==
  /\ ui.isVisible /\ ui.currentMode = "info"
  /\ UiOp(toggleInfoAudio(World), "speech-click")

\* App.dispose() reaches the UI manager
UiDisposed ==
  /\ ~ui.disposed
  /\ UiOp(UIManager_dispose(World), "dispose")

PopupNext ==
  \/ FabClick
  \/ ShowMusicPlayer
  \/ OutsideClick
  \/ \E t \in 1 .. MaxUiOps : AutoHideExpired(t)
  \/ InfoClick
  \/ BackClick
  \/ SpeechClick
  \/ UiDisposed

\* the running application with the popup hidden
PopupSpec == InfoInit /\ [][PopupNext]_vars

-----------------------------------------------------------------------------
(* Songs: properties *)

\* C19: a mood switch for a selected song is requested ('mood:change' is
\* emitted, hence applyMood is called) only after that song's audio load
\* has settled: a handler that emitted 'mood:change' for a song leaves no
\* load of that song in flight
C19_MoodChangeOnlyAfterLoad ==
  [][(/\ lastOp'.op \in {"playSong", "onload"}
      /\ \E k \in DOMAIN callLog' : callLog'[k].call = "emit:mood:change")
       => \A i \in DOMAIN audio'.loading : audio'.loading[i].id # lastOp'.name]_vars

-----------------------------------------------------------------------------
(* Vegetation glow: properties *)

\* C20: while the active mood does not enable emissiveGlow, after each
\* frame's vegetation update the emissive intensity of the tree, crop and
\* ground materials is 0, whatever glow an earlier mood left and whether or
\* not the vegetation meshes have been loaded
C20_NoGlowMeansZeroIntensity ==
  (/\ lastOp.op = "animate" /\ ~lastOp.threw
   /\ Truthy(currentMood)
   /\ Has(Deref(currentMood), "vegetation")
   /\ ~Flag(Deref(currentMood).vegetation, "emissiveGlow"))
    => /\ landscape.ground.emissiveIntensity = 0
       /\ Truthy(landscape.trees) => landscape.trees.emissiveIntensity = 0
       /\ Truthy(landscape.crops) => landscape.crops.emissiveIntensity = 0

-----------------------------------------------------------------------------
(* Failing sub-resources: properties *)

\* C21: if creating one dynamic light or one particle system fails during
\* applyMood (a light spec without position, a particle spec without
\* material), only that sub-resource is missing afterwards: the other
\* lights and particle systems of the mood exist, the bloom parameters and
\* the vegetation setting are those of the mood, and applyMood does not throw
C21_FailedSubResourceIsSkipped ==
  [][(/\ lastOp'.op = "tempOverride"
      /\ Has(lastOp'.config, "fog") /\ Has(lastOp'.config, "keyLight")
      /\ Has(lastOp'.config, "bloom"))
       => LET config == lastOp'.config
              goodLights == {config.dynamicLights[i].name :
                               i \in {j \in 1 .. Len(config.dynamicLights) :
                                        Has(config.dynamicLights[j], "position")}}
              goodSpecs == {i \in 1 .. Len(ParticleConfigs(config)) :
                              Has(ParticleConfigs(config)[i], "material")}
          IN /\ ~lastOp'.threw
             /\ DynamicLightKeys(lights') = goodLights
             /\ Len(particleSystems') = Cardinality(goodSpecs)
             /\ bloomPass' = [threshold |-> config.bloom.threshold,
                              strength |-> config.bloom.strength,
                              radius |-> config.bloom.radius]
             /\ landscape'.currentVegConfig = config.vegetation]_vars

-----------------------------------------------------------------------------
(* RFIDMusicManager: the scanner's keystrokes, the lookup and the selection *)

\* variant: any id that is not empty has a valid format
isValidRFIDFormat_NonEmpty(id) == Len(id) > 0

\* /^\d{10}$/.test(id), id being a sequence of characters
isValidRFIDFormat(id) ==
  /\ Len(id) = 10
  /\ \A i \in 1 .. Len(id) : id[i] \in {"0", "1", "2", "3", "4", "5", "6", "7", "8", "9"}

\* plantLookup.get(id) || null: buildLookupMaps has put every id of every
\* tree and plant into the map once both databases are loaded
findPlantByHardwareId(w, id) ==
  LET found == {i \in DOMAIN Plants : id \in Plants[i].ids}
  IN IF w.rfid.loaded /\ found # {} THEN Plants[CHOOSE i \in found : TRUE] ELSE Null

\* findSong(treeKey, plantKey): the combination, the reversed combination,
\* then the first song of the tree
findSong(w, treeKey, plantKey) ==
  LET exact == {k \in DOMAIN Songs : Songs[k].tree = treeKey /\ Songs[k].plant = plantKey}
      reverse == {k \in DOMAIN Songs : Songs[k].tree = plantKey /\ Songs[k].plant = treeKey}
      ofTree == {k \in DOMAIN Songs : Songs[k].tree = treeKey}
      Last(set) == Songs[CHOOSE k \in set : \A j \in set : j <= k]
      First(set) == Songs[CHOOSE k \in set : \A j \in set : k <= j]
  IN IF exact # {} THEN Last(exact)
     ELSE IF reverse # {} THEN Last(reverse)
     ELSE IF ofTree # {} THEN First(ofTree)
     ELSE Undefined

clearInputBuffer(w) ==
  [w EXCEPT !.rfid.inputBuffer = <<>>,
            !.rfid.inputTimeout = FALSE,
            !.rfid.timerPending = IF w.rfid.inputTimeout THEN FALSE ELSE @]

\* tryPlaySong(): playSong, then generateLandscape, whose event only starts
\* the asynchronous asset loads of the landscape manager
tryPlaySong(w, rnd) ==
  IF ~Truthy(w.rfid.selection.tree) \/ ~Truthy(w.rfid.selection.plant) THEN w
  ELSE
    LET songInfo == findSong(w, w.rfid.selection.tree.key, w.rfid.selection.plant.key)
    IN IF ~Truthy(songInfo) THEN Logged(w, "emit:ui:show-status", "warning", -1)
       ELSE Logged(Logged(playSong(w, songInfo, rnd), "emit:ui:show-music-player", "", -1),
                   "emit:landscape:generate-from-selection",
                   w.rfid.selection.tree.name \o "+" \o w.rfid.selection.plant.name, -1)

handlePlantScanned(w, plantInfo, rnd) ==
  LET w1 == Logged(w, "emit:ui:show-music-player", "", -1)
      w2 == IF plantInfo.type = "tree"
            THEN Logged([w1 EXCEPT !.rfid.selection.tree = plantInfo],
                        "emit:ui:tree-selected", plantInfo.name, -1)
            ELSE Logged([w1 EXCEPT !.rfid.selection.plant = plantInfo],
                        "emit:ui:plant-selected", plantInfo.name, -1)
  IN IF Truthy(w2.rfid.selection.tree) /\ Truthy(w2.rfid.selection.plant)
     THEN tryPlaySong(w2, rnd)
     ELSE w2

processRFIDInput(w, rfidId, rnd) ==
  LET w1 == Logged(clearInputBuffer(w), "processRFIDInput", "", -1)
      plantData == findPlantByHardwareId(w1, rfidId)
  IN IF ~isValidRFIDFormat(rfidId) THEN Logged(w1, "emit:ui:show-status", "error", -1)
     ELSE IF ~Truthy(plantData) THEN Logged(w1, "emit:ui:show-status", "error", -1)
     ELSE handlePlantScanned(w1, plantData, rnd)

\* String.prototype.trim on a sequence of characters
RECURSIVE trim(_)
trim(str) ==
  IF str = <<>> THEN str
  ELSE IF Head(str) = " " THEN trim(Tail(str))
  ELSE IF str[Len(str)] = " " THEN trim(SubSeq(str, 1, Len(str) - 1))
  ELSE str

\* handleKeyboardInput(event) for a key pressed without modifier; a digit
\* goes through addToInputBuffer, which restarts the timer
handleKeyboardInput(w, key, rnd) ==
  IF ~w.rfid.isListening THEN w
  ELSE IF key = "Enter"
  THEN IF Len(w.rfid.inputBuffer) > 0
       THEN processRFIDInput(w, trim(w.rfid.inputBuffer), rnd)
       ELSE w
  ELSE IF key \in {"0", "1", "2", "3", "4", "5", "6", "7", "8", "9"}
  THEN [w EXCEPT !.rfid.inputBuffer = Append(@, key),
                 !.rfid.inputTimeout = TRUE,
                 !.rfid.timerPending = TRUE]
  ELSE IF key = "Backspace"
  THEN [w EXCEPT !.rfid.inputBuffer = SubSeq(@, 1, Len(@) - 1)]
  ELSE w

\* the callback addToInputBuffer hands to window.setTimeout
onInputTimeout(w, rnd) ==
  LET w1 == [w EXCEPT !.rfid.timerPending = FALSE]
  IN IF Len(w1.rfid.inputBuffer) >= 10
     THEN processRFIDInput(w1, trim(w1.rfid.inputBuffer), rnd)
     ELSE w1

\* variant: the tree stays selected
resetSelection_KeepTree(w) == [w EXCEPT !.rfid.selection.plant = Null]

\* resetSelection(): only the selection is cleared
resetSelection(w) == [w EXCEPT !.rfid.selection = [tree |-> Null, plant |-> Null]]

\* a handler of the RFID manager ended in world w; id is what
\* processRFIDInput was called with, if it was called
RfidOp(w, op, id, processed) ==
  /\ ops < MaxSongOps
  /\ ops' = ops + 1
  /\ Commit(w)
  /\ lastOp' = [op |-> op, name |-> "", repeat |-> FALSE, threw |-> w.threw,
                deltaTime |-> 0, elapsedTime |-> 0, id |-> id,
                processed |-> processed]
  /\ UNCHANGED <<clock, rafPending>>

\* Math.random() calls processRFIDInput(rfidId) makes: those of the
\* applyMood for the song the scan completes, if it completes one
SongDraws(w, rfidId) ==
  LET plantData == findPlantByHardwareId(w, rfidId)
  IN IF ~isValidRFIDFormat(rfidId) \/ ~Truthy(plantData) THEN 0
     ELSE
       LET tree == IF plantData.type = "tree" THEN plantData ELSE w.rfid.selection.tree
           plant == IF plantData.type = "tree" THEN w.rfid.selection.plant ELSE plantData
       IN IF ~Truthy(tree) \/ ~Truthy(plant) THEN 0
          ELSE IF ~Truthy(findSong(w, tree.key, plant.key)) THEN 0
          ELSE ParticleDraws(LookupIn(w.moodStyles, findSong(w, tree.key, plant.key).mood))

\* loadData() has resolved: buildLookupMaps fills both maps
DataLoaded ==
  /\ ~rfid.loaded
  /\ RfidOp([World EXCEPT !.rfid.loaded = TRUE], "loadData", <<>>, FALSE)

\* the ids scanId(id), scanTree(id) and scanPlant(id) are called with: the
\* cards, a printed label, an unknown card, nine digits, eleven digits, a
\* letter among the digits, nothing
ScannedIds ==
  UNION {Plants[i].ids : i \in DOMAIN Plants}
    \cup {<<"0", "0", "0", "9", "8", "1", "2", "6", "7", "2">>,
          <<"0", "0", "0", "9", "8", "0", "6", "8", "6">>,
          <<"0", "0", "0", "9", "8", "0", "6", "8", "6", "7", "1">>,
          <<"0", "0", "0", "9", "8", "0", "6", "8", "6", "x">>,
          <<>>}

\* scanId(id) typed into the console
ScanId(id) ==
  \E rnd \in RandomStreams(SongDraws(World, id)) :
    RfidOp(processRFIDInput(World, id, rnd), "scanId", id, TRUE)

\* a keydown event reaches the document
KeyDown(key) ==
  \E rnd \in RandomStreams(IF key = "Enter" THEN SongDraws(World, trim(rfid.inputBuffer))
                            ELSE 0) :
    RfidOp(handleKeyboardInput(World, key, rnd), "keydown", trim(rfid.inputBuffer),
           rfid.isListening /\ key = "Enter" /\ Len(rfid.inputBuffer) > 0)

\* INPUT_TIMEOUT ms have passed since the last digit
InputTimeout ==
  /\ rfid.timerPending
  /\ \E rnd \in RandomStreams(SongDraws(World, trim(rfid.inputBuffer))) :
       RfidOp(onInputTimeout(World, rnd), "inputTimeout", trim(rfid.inputBuffer),
              Len(rfid.inputBuffer) >= 10)

\* 'ui:selection-reset' (the stop button) or 'system:reset' reaches
\* resetSelection()
SelectionReset == RfidOp(resetSelection(World), "resetSelection", <<>>, FALSE)

\* what the scanner may have typed when the observation starts: nothing,
\* nine digits of a card, ten digits of a card
TypedPrefixes ==
  {<<>>,
   <<"0", "0", "0", "9", "8", "0", "6", "8", "6">>,
   <<"0", "0", "0", "9", "8", "1", "2", "6", "7", "1">>}

\* the running application after rfidMusicManager.startListening(), with
\* the databases loaded or still loading, the scanner having typed a prefix
RfidInit ==
  /\ \E rnd \in RandomStreams(ParticleDraws(Harmonisch)), typed \in TypedPrefixes,
        loaded \in BOOLEAN :
       IsWorld([AppStarted(rnd) EXCEPT !.rfid.isListening = TRUE,
                                       !.rfid.loaded = loaded,
                                       !.rfid.inputBuffer = typed,
                                       !.rfid.inputTimeout = typed # <<>>,
                                       !.rfid.timerPending = typed # <<>>])
  /\ clock = [running |-> TRUE, elapsedTime |-> 0, frames |-> 1]
  /\ rafPending = 1
  /\ lastOp = Op("animate", "Harmonisch", FALSE, FALSE, 0, 0)
  /\ ops = 0

RfidNext ==
  \/ DataLoaded
  \/ \E id \in ScannedIds : ScanId(id)
  \/ \E key \in {"7", "1", "Enter", "Backspace", "a"} : KeyDown(key)
  \/ InputTimeout
  \/ SelectionReset

RfidSpec == RfidInit /\ [][RfidNext]_vars

-----------------------------------------------------------------------------
(* RFIDMusicManager: properties *)

\* C22: a scanned id is accepted only if it is exactly 10 digits and known
\* to the plant lookup. processRFIDInput with any other string changes
\* neither the selection nor the mood, emits nothing but one error status
\* (no 'song:selected', 'mood:change' or landscape event); an accepted id
\* puts its card into the selection; in every case the input buffer is
\* empty afterwards and no timeout is pending
C22_OnlyKnownTenDigitIdsAreAccepted ==
  [][(Has(lastOp', "processed") /\ lastOp'.processed)
       => LET id == lastOp'.id
              tenDigits ==
                /\ Len(id) = 10
                /\ \A i \in 1 .. Len(id) :
                     id[i] \in {"0", "1", "2", "3", "4", "5", "6", "7", "8", "9"}
              cards == {i \in DOMAIN Plants : id \in Plants[i].ids}
          IN /\ rfid'.inputBuffer = <<>>
             /\ ~rfid'.inputTimeout
             /\ ~rfid'.timerPending
             /\ ~(tenDigits /\ rfid.loaded /\ cards # {}) =>
                  /\ rfid'.selection = rfid.selection
                  /\ currentMood' = currentMood
                  /\ scene' = scene
                  /\ audio' = audio
                  /\ callLog' = <<Call("processRFIDInput", "", -1),
                                  Call("emit:ui:show-status", "error", -1)>>
             /\ (tenDigits /\ rfid.loaded /\ cards # {}) =>
                  \A i \in cards : rfid'.selection[Plants[i].type] = Plants[i]]_vars

\* Enter was pressed on eleven typed digits: an error status, nothing selected
C22_Witness ==
  /\ Has(lastOp, "processed") /\ lastOp.processed
  /\ lastOp.op = "keydown"
  /\ Len(lastOp.id) = 11
  /\ callLog[Len(callLog)] = Call("emit:ui:show-status", "error", -1)
  /\ rfid.inputBuffer = <<>>
  /\ rfid.selection = [tree |-> Null, plant |-> Null]

-----------------------------------------------------------------------------
(* Dynamic lights: initial values *)

-----------------------------------------------------------------------------
(* Explosion and strobe lights: properties *)

\* C24: an explosion light with randomPosition stays, after any number of
\* frames, in the box positionRange spans around its configured base
\* position (|x - base.x| <= rangeX / 2, base.y <= y <= base.y + rangeY,
\* |z - base.z| <= rangeZ / 2): a jump is offset from the base, not from
\* where the light is, and a frame without a trigger (the intensity is not
\* set to base * intensityMultiplier) leaves the position as it was
C24_ExplosionStaysInBox ==
  [][(/\ lastOp'.op = "animate" /\ ~lastOp'.threw
      /\ Truthy(currentMood')
      /\ Has(DerefIn(moodStyles', currentMood'), "dynamicLights"))
       => \A lightConfig \in
               {DerefIn(moodStyles', currentMood').dynamicLights[i] :
                  i \in 1 .. Len(DerefIn(moodStyles', currentMood').dynamicLights)} :
            (/\ lightConfig.name \in DOMAIN lights'
             /\ Has(lightConfig, "animation")
             /\ lightConfig.animation.enabled
             /\ lightConfig.animation.mode = "explosion"
             /\ lightConfig.animation.params.explosion.randomPosition)
              => LET params == lightConfig.animation.params.explosion
                     base == Head(lightConfig.position.v)
                     range == params.positionRange
                     was == lights[lightConfig.name]
                     now == lights'[lightConfig.name]
                 IN /\ 2 * (now.position[1] - base[1]) <= 1000 * range[1]
                    /\ 2 * (base[1] - now.position[1]) <= 1000 * range[1]
                    /\ base[2] <= now.position[2]
                    /\ now.position[2] <= base[2] + 1000 * range[2]
                    /\ 2 * (now.position[3] - base[3]) <= 1000 * range[3]
                    /\ 2 * (base[3] - now.position[3]) <= 1000 * range[3]
                    /\ now.position # was.position =>
                         now.intensity = (Head(lightConfig.intensity.v)
                                          * params.intensityMultiplier) \div 1000]_vars

\* Krieg's explosion light has jumped to an edge of its box
C24_Witness ==
  /\ lastOp.op = "animate" /\ lastOp.name = "Krieg"
  /\ "fire_explosion" \in DOMAIN lights
  /\ lights["fire_explosion"].position = <<0, 99940, -180000>>

\* C25: a strobe light whose base intensity is at most maxIntensity and
\* whose fadeSpeed is in [0, 1] has, after every frame, an intensity between
\* the base intensity and maxIntensity: the frame leaves it at exactly
\* maxIntensity or somewhere from the base up to where it was; whatever
\* the light's intensity, a draw that triggers sets it to exactly
\* maxIntensity, and a draw that does not moves it towards the base, never
\* past it and never away from it
C25_StrobeBetweenBaseAndMax ==
  [][(/\ lastOp'.op = "animate" /\ ~lastOp'.threw
      /\ Truthy(currentMood')
      /\ Has(DerefIn(moodStyles', currentMood'), "dynamicLights"))
       => \A lightConfig \in
               {DerefIn(moodStyles', currentMood').dynamicLights[i] :
                  i \in 1 .. Len(DerefIn(moodStyles', currentMood').dynamicLights)} :
            (/\ lightConfig.name \in DOMAIN lights'
             /\ lightConfig.name \in DOMAIN lights
             /\ Has(lightConfig, "animation")
             /\ lightConfig.animation.enabled
             /\ lightConfig.animation.mode = "strobe"
             /\ Head(lightConfig.intensity.v) <= lightConfig.animation.params.strobe.maxIntensity
             /\ lightConfig.animation.params.strobe.fadeSpeed \in 0 .. 1000)
              => LET params == lightConfig.animation.params.strobe
                     base == Head(lightConfig.intensity.v)
                     was == lights[lightConfig.name]
                     now == lights'[lightConfig.name]
                 IN /\ base <= now.intensity
                    /\ now.intensity <= params.maxIntensity
                    /\ \/ now.intensity = params.maxIntensity
                       \/ now.intensity <= was.intensity
                    /\ \A r1, r2 \in {RandomDraws[k] : k \in DOMAIN RandomDraws} :
                         LET out == updateStrobeLight(was, lightConfig, params, r1, r2)
                         IN IF r1 > 1000 - params.triggerChance
                            THEN out.intensity = params.maxIntensity
                            ELSE /\ base <= out.intensity
                                 /\ out.intensity <= was.intensity]_vars

\* Krieg's strobe was triggered in one frame and faded in the next:
\* 4000 + 0.2 * (200 - 4000) = 3240
C25_Witness ==
  /\ lastOp.op = "animate" /\ lastOp.name = "Krieg"
  /\ "lightning_strobe" \in DOMAIN lights
  /\ lights["lightning_strobe"].intensity = 3240000

-----------------------------------------------------------------------------
(* GameEventBus *)

\* on(event, listener, once): Set.add keeps one entry per function
on(w, event, listener, once) ==
  LET map == IF once THEN "onceListeners" ELSE "listeners"
  IN IF \E i \in DOMAIN w.bus[map][event] : w.bus[map][event][i] = listener THEN w
     ELSE [w EXCEPT !.bus[map][event] = Append(@, listener)]

\* Set.delete(listener)
Without(seq, listener) == SelectSeq(seq, LAMBDA l : l # listener)

\* off(event, listener)
off(w, event, listener) ==
  [w EXCEPT !.bus.listeners[event] = Without(@, listener),
            !.bus.onceListeners[event] = Without(@, listener)]

\* removeAllListeners(event)
removeAllListeners(w, event) ==
  [w EXCEPT !.bus.listeners[event] = <<>>, !.bus.onceListeners[event] = <<>>]

\* variant: what a listener throws is not caught
CatchError_Rethrow(w, event) == w

\* the catch block around a listener call: the error is logged and dropped
CatchError(w, event) ==
  IF w.threw THEN Logged([w EXCEPT !.threw = FALSE], "console.error", event, -1)
  ELSE w

RECURSIVE emit(_, _, _)
RECURSIVE CallListener(_, _, _, _)
RECURSIVE executeListeners(_, _, _, _)
RECURSIVE executeOnceListeners(_, _, _, _)

\* (listener)(data): what the listener function does when called
CallListener(w, listener, event, data) ==
  LET w1 == [Logged(w, "call:" \o listener, event, -1) EXCEPT !.bus.calls[listener] = @ + 1]
  IN CASE ListenerKind[listener] = "applyMood" -> MoodManager_applyMood(w1, data, <<>>)
       [] ListenerKind[listener] = "throw" -> [w1 EXCEPT !.threw = TRUE]
       [] ListenerKind[listener] = "emit" ->
            IF w.bus.calls[listener] = 0 THEN emit(w1, event, data) ELSE w1
       [] OTHER -> w1

\* listeners.forEach(...) of executeListeners from the i-th element of the
\* Set on: forEach visits what the Set holds when it gets there
executeListeners(w, event, data, i) ==
  IF w.threw \/ i > Len(w.bus.listeners[event]) THEN w
  ELSE executeListeners(
         CatchError(CallListener(w, w.bus.listeners[event][i], event, data), event),
         event, data, i + 1)

\* listeners.forEach(...) of executeOnceListeners from the i-th element on,
\* then listeners.clear()
executeOnceListeners(w, event, data, i) ==
  IF w.threw THEN w
  ELSE IF i > Len(w.bus.onceListeners[event])
  THEN [w EXCEPT !.bus.onceListeners[event] = <<>>]
  ELSE executeOnceListeners(
         CatchError(CallListener(w, w.bus.onceListeners[event][i], event, data), event),
         event, data, i + 1)

\* emit(event, data)
emit(w, event, data) ==
  executeOnceListeners(executeListeners(w, event, data, 1), event, data, 1)

\* a call of the bus ended in world w
BusOp(w, op, event, listener) ==
  /\ ops < MaxOps
  /\ ops' = ops + 1
  /\ Commit(w)
  /\ lastOp' = [op |-> op, name |-> event, repeat |-> FALSE, threw |-> w.threw,
                deltaTime |-> 0, elapsedTime |-> 0, listener |-> listener]
  /\ UNCHANGED <<clock, rafPending>>

\* gameEventBus.on(event, listener)
On(event, listener) == BusOp(on(World, event, listener, FALSE), "on", event, listener)

\* gameEventBus.once(event, listener)
Once(event, listener) == BusOp(on(World, event, listener, TRUE), "once", event, listener)

\* gameEventBus.off(event, listener)
Off(event, listener) == BusOp(off(World, event, listener), "off", event, listener)

\* gameEventBus.removeAllListeners(event)
RemoveAllListeners(event) ==
  BusOp(removeAllListeners(World, event), "removeAllListeners", event, "")

\* gameEventBus.emit(event, data); the data of 'mood:change' names a mood
\* applyMood throws for or one it does not find
Emit(event) ==
  \E moodName \in IF event = "mood:change" THEN {"constructor", "Nonexistent"} ELSE {""} :
    BusOp(emit(World, event, moodName), "emit", event, moodName)

\* the running application: App.setupApplicationIntegration has registered
\* its 'mood:change' listener
BusInit ==
  /\ \E rnd \in RandomStreams(ParticleDraws(Harmonisch)) :
       IsWorld(on(AppStarted(rnd), "mood:change", "app", FALSE))
  /\ clock = [running |-> TRUE, elapsedTime |-> 0, frames |-> 1]
  /\ rafPending = 1
  /\ lastOp = Op("animate", "Harmonisch", FALSE, FALSE, 0, 0)
  /\ ops = 0

BusNext ==
  \/ \E event \in BusEvents, listener \in {"plain", "thrower", "reemitter"} :
       On(event, listener)
  \/ \E event \in BusEvents, listener \in {"plain", "thrower", "reemitter"} :
       Once(event, listener)
  \/ \E event \in BusEvents, listener \in {"plain", "thrower", "reemitter"} :
       Off(event, listener)
  \/ \E event \in BusEvents : RemoveAllListeners(event)
  \/ \E event \in BusEvents : Emit(event)

BusSpec == BusInit /\ [][BusNext]_vars

\* the listeners a Set of the bus holds
Registered(seq) == {seq[i] : i \in DOMAIN seq}

\* the place of the first call of a listener in the calls of the last handler
FirstCall(log, listener) ==
  CHOOSE i \in DOMAIN log :
    /\ log[i].call = "call:" \o listener
    /\ \A j \in 1 .. i - 1 : log[j].call # "call:" \o listener

\* C26: an emit calls a listener registered with once (and not with on) for
\* the event at most one time, whatever the listeners do during the emit,
\* and leaves no once-listener registered for the event
C26_OnceListenerCalledAtMostOnce ==
  [][(lastOp'.op = "emit" /\ ops' = ops + 1) =>
       /\ \A l \in Registered(bus.onceListeners[lastOp'.name])
                     \ Registered(bus.listeners[lastOp'.name]) :
            bus'.calls[l] <= bus.calls[l] + 1
       /\ bus'.onceListeners[lastOp'.name] = <<>>]_vars

\* C27: an emit returns without throwing after having called every listener
\* registered for the event, the first call of each regular listener coming
\* before the first call of each listener registered with once only
C27_EmitCallsEveryListener ==
  [][(lastOp'.op = "emit" /\ ops' = ops + 1) =>
       LET regular == Registered(bus.listeners[lastOp'.name])
           onceOnly == Registered(bus.onceListeners[lastOp'.name]) \ regular
       IN /\ ~lastOp'.threw
          /\ \A l \in regular \cup onceOnly : bus'.calls[l] > bus.calls[l]
          /\ \A r \in regular, o \in onceOnly :
               FirstCall(callLog', r) < FirstCall(callLog', o)]_vars

\* an emit of 'mood:change' whose applyMood threw, after which a regular
\* listener and a once-listener were still called
C27_Witness ==
  /\ lastOp.op = "emit"
  /\ lastOp.name = "mood:change"
  /\ \E i, j, k, n \in DOMAIN callLog :
       /\ i < j /\ j < k /\ k < n
       /\ callLog[i].call = "call:app"
       /\ callLog[j].call = "console.error"
       /\ callLog[k].call = "call:thrower"
       /\ callLog[n].call = "call:plain"
  /\ "thrower" \in Registered(bus.listeners["mood:change"])
  /\ "plain" \notin Registered(bus.listeners["mood:change"])

\* C28: a load callback of a song that is no longer the current one changes
\* neither the mood nor the playback, and once every load has settled the
\* active mood is the mood of the song selected last
C28_LateLoadOfSupersededSongIsIgnored ==
  [][(ops' = ops + 1 /\ lastOp'.op \in {"onload", "onloaderror"}) =>
       /\ lastOp'.name # audio.currentSong.id =>
            /\ currentMood' = currentMood
            /\ \A n \in DOMAIN callLog' : callLog'[n].call # "currentSong.play"
       /\ ( /\ audio'.loading = <<>>
            /\ lastOp'.op = "onload"
            /\ audio'.currentSong.tree = rfid.selection.tree.key
            /\ audio'.currentSong.plant = rfid.selection.plant.key )
          => currentMood'.key = audio'.currentSong.mood]_vars

\* C29: when no info audio is active and no stopped info Howl has its
\* onstop callback outstanding, the music channel is at full volume
C29_MusicVolumeRestoredAfterInfoAudio ==
  (audio.currentInfoAudio = Null /\ audio.infoStopPending = 0) => audio.music = 1000

-----------------------------------------------------------------------------
(* Selection and 'song:selected' *)

\* whether the handler that led to log emitted 'song:selected'
SongSelectedIn(log) == \E n \in DOMAIN log : log[n].call = "emit:song:selected"

\* C30: 'song:selected' is emitted only with a tree and a plant selected and
\* carries their names; resetSelection leaves nothing selected, and from a
\* state with nothing selected no single handler emits 'song:selected'
C30_SongSelectedNeedsTreeAndPlant ==
  [][/\ SongSelectedIn(callLog') =>
          /\ rfid'.selection.tree # Null
          /\ rfid'.selection.plant # Null
          /\ \A n \in DOMAIN callLog' :
               callLog'[n].call = "emit:song:selected" =>
                 callLog'[n].mood =
                   rfid'.selection.tree.name \o "+" \o rfid'.selection.plant.name
          /\ rfid.selection.tree # Null \/ rfid.selection.plant # Null
     /\ (ops' = ops + 1 /\ lastOp'.op = "resetSelection") =>
          rfid'.selection = [tree |-> Null, plant |-> Null]]_vars

\* the scan of Dinkel after the scan of Robinie: no song is registered for
\* the pair, the first song of the tree is played, and 'song:selected'
\* names the selection
C30_Witness ==
  /\ lastOp.op = "scanId"
  /\ \E n \in DOMAIN callLog :
       callLog[n] = Call("emit:song:selected", "Robinie+Dinkel", -1)
  /\ rfid.selection.tree.key = "robinie"
  /\ rfid.selection.plant.key = "dinkel"

-----------------------------------------------------------------------------
(* The song of a pair *)

\* the songs the database holds for a tree and a plant
SongsOfPair(treeKey, plantKey) ==
  {k \in DOMAIN Songs : Songs[k].tree = treeKey /\ Songs[k].plant = plantKey}

\* C31: the song a handler hands to AudioManager.play is a song of the
\* selected tree and the selected plant, and a handler that completes a
\* selection the database has no song for selects no song
C31_SongOfExactlyThatPair ==
  [][(ops' = ops + 1 /\ Has(lastOp', "processed")
        /\ rfid'.selection.tree # Null /\ rfid'.selection.plant # Null) =>
       LET pair == SongsOfPair(rfid'.selection.tree.key, rfid'.selection.plant.key)
       IN /\ \A n \in DOMAIN callLog' :
               callLog'[n].call \in {"new Howl", "audioLogger.error"} =>
                 \E k \in pair : Songs[k].id = callLog'[n].mood
          /\ pair = {} => ~SongSelectedIn(callLog')]_vars

-----------------------------------------------------------------------------
(* Popup: the auto-hide timer *)

\* C32: until the UI manager is disposed, a timer is pending exactly while
\* the popup is visible, it is the one the manager holds, no second timer is
\* pending, and showPopup on a visible popup changes nothing
C32_TimerPendingWhilePopupVisible ==
  [][/\ ~ui'.disposed =>
          /\ ui'.isVisible <=> ui'.timers # {}
          /\ Cardinality(ui'.timers) <= 1
          /\ ui'.isVisible => ui'.timers = {ui'.autoHideTimeout}
          /\ ~ui'.isVisible => ui'.autoHideTimeout = 0
     /\ (ops' = ops + 1 /\ lastOp'.op = "showPopup" /\ ui.isVisible) => ui' = ui]_vars

\* the popup hidden by its timer after it was shown a second time
C32_Witness ==
  /\ lastOp.op = "timer"
  /\ ~ui.isVisible
  /\ ui.timers = {}
  /\ ui.nextTimer = 3
  /\ ~ui.disposed

-----------------------------------------------------------------------------
(* Asset loads *)

\* C33: no loadAsset call is rejected, a failed load gives every caller a
\* placeholder, and a file is among the loads in flight exactly while a call
\* that started its load is pending
C33_LoadAssetNeverRejects ==
  /\ \A i \in DOMAIN assets.calls : assets.calls[i].outcome # "rejected"
  /\ assets.currentLoads =
       {assets.calls[i].file : i \in {j \in DOMAIN assets.calls :
                                        /\ assets.calls[j].outcome = "pending"
                                        /\ ~assets.calls[j].joined}}

-----------------------------------------------------------------------------
(* Landscape requests *)

\* how many children of the scene are the object obj
InScene(children, obj) == Cardinality({i \in DOMAIN children : children[i] = obj})

\* the place of the first call what(name) in log, 0 if there is none
PlaceOf(log, what, name) ==
  IF \E i \in DOMAIN log : log[i].call = what /\ log[i].mood = name
  THEN CHOOSE i \in DOMAIN log :
         /\ log[i].call = what /\ log[i].mood = name
         /\ \A j \in 1 .. i - 1 : ~(log[j].call = what /\ log[j].mood = name)
  ELSE 0

\* C34: after every step of overlapping landscape requests the scene holds
\* at most one tree mesh and at most one crop mesh, and a step that adds a
\* mesh while one is held has removed the held one first
C34_AtMostOneTreeAndCropMesh ==
  [][\A name \in {"trees", "crops"} :
       /\ InScene(scene'.children, Obj("mesh", name)) <= 1
       /\ (PlaceOf(callLog', "scene.add:mesh", name) > 0 /\ Truthy(landscape[name])) =>
            /\ PlaceOf(callLog', "scene.remove:mesh", name) > 0
            /\ PlaceOf(callLog', "scene.remove:mesh", name)
                 < PlaceOf(callLog', "scene.add:mesh", name)]_vars

\* the second of two overlapping requests has replaced the vegetation the
\* first one created
C34_Witness ==
  /\ lastOp.op = "resumeLandscape"
  /\ Len(assets.requests) = 2
  /\ \A r \in DOMAIN assets.requests : assets.requests[r].done
  /\ PlaceOf(callLog, "scene.remove:mesh", "trees") > 0
  /\ PlaceOf(callLog, "scene.add:mesh", "crops") > 0
  /\ InScene(scene.children, Obj("mesh", "trees")) = 1
  /\ InScene(scene.children, Obj("mesh", "crops")) = 1

\* C35: when a landscape request completes with success while a mood's
\* vegetation config is held, the materials of the new tree and crop meshes
\* have that config's treeColor and cropColor
C35_NewMaterialsCarryMoodColors ==
  [][(PlaceOf(callLog', "emit:landscape:generation-completed", "success") > 0
        /\ Truthy(landscape'.currentVegConfig)) =>
       /\ landscape'.trees.color =
            ColorSet(landscape'.trees.color, landscape'.currentVegConfig.treeColor)
       /\ landscape'.crops.color =
            ColorSet(landscape'.crops.color, landscape'.currentVegConfig.cropColor)]_vars

-----------------------------------------------------------------------------
(* The render loop followed without end *)

\* the loop is followed over a clock that reads modulo LoopPeriod ms with
\* frames LoopDelta ms apart; frames and renders are counted modulo LoopFrames
LoopDelta == 250
LoopFrames == 4
LoopPeriod == LoopDelta * LoopFrames

\* animate with its requestAnimationFrame call moved behind the render
requestNextFrame_AfterRender(queued, w) ==
  IF w.threw THEN queued ELSE queued + 1

\* requestAnimationFrame(() => this.animate(moodManager, uiManager)), the
\* first statement of animate: one callback joins the queued ones whatever
\* the rest of the frame does
requestNextFrame(queued, w) ==
  queued + 1

\* one run of animate with queued callbacks left in the queue; lastOp.repeat
\* tells that the frame before this one threw
LoopFrame(deltaTime, queued) ==
  LET elapsedTime == (clock.elapsedTime + deltaTime) % LoopPeriod
  IN \E rnd \in {LowStream(LightDraws(Deref(currentMood)))} :
     LET w == animate(World, deltaTime, elapsedTime, rnd)
     IN /\ Commit([w EXCEPT !.composer.renders = @ % LoopFrames])
        /\ clock' = [running |-> TRUE, elapsedTime |-> elapsedTime,
                     frames |-> (clock.frames + 1) % LoopFrames]
        /\ rafPending' = requestNextFrame(queued, w)
        /\ lastOp' = Op("animate", NameOf(Deref(currentMood)),
                        lastOp.op = "animate" /\ lastOp.threw, w.threw,
                        deltaTime, elapsedTime)
        /\ UNCHANGED ops

\* startAnimationLoop(): the application calls animate itself
LoopStarted ==
  /\ ~clock.running
  /\ rafPending = 0
  /\ LoopFrame(0, rafPending)

\* the browser takes a queued callback and runs it
LoopCallback ==
  /\ rafPending > 0
  /\ LoopFrame(LoopDelta, rafPending - 1)

\* moodManager.applyMood(moodName) between two frames
LoopMoodApplied(moodName) ==
  /\ ops < MaxOps
  /\ ops' = ops + 1
  /\ \E rnd \in {LowStream(ParticleDraws(Lookup(moodName)))} :
     LET w == MoodManager_applyMood(World, moodName, rnd)
     IN /\ Commit(w)
        /\ lastOp' = Op("applyMood", moodName, FALSE, w.threw, 0, 0)
        /\ UNCHANGED <<clock, rafPending>>

\* the moods applied while the loop is followed: two catalog moods without
\* particles that drift on from frame to frame, and the name that leaves an
\* inherited function as the current mood
LoopMoods == {"Harmonisch", "Kooperativ", "constructor"}

LoopNext ==
  \/ \E moodName \in LoopMoods : LoopMoodApplied(moodName)
  \/ LoopStarted
  \/ LoopCallback
  \/ LandscapeGenerated

\* what the run of a queued callback does to the clock: the steps of
\* LoopCallback are the steps that take a callback and advance the clock
CallbackRun ==
  /\ rafPending > 0
  /\ clock' = [running |-> TRUE,
               elapsedTime |-> (clock.elapsedTime + LoopDelta) % LoopPeriod,
               frames |-> (clock.frames + 1) % LoopFrames]

\* the browser runs a queued animation frame callback after finite time
LoopSpec == Init /\ [][LoopNext]_vars /\ WF_clock(CallbackRun)

\* C36: once animate has been started exactly one callback is queued after
\* every frame, a frame that threw included, and every frame is followed by
\* another one
C36_EveryFrameSchedulesTheNext ==
  /\ [](clock.running => rafPending = 1)
  /\ [][clock.frames' # clock.frames => rafPending' = (rafPending - (IF clock.running THEN 1 ELSE 0)) + 1]_vars
  /\ \A k \in 0 .. LoopFrames - 1 :
       [](clock.running /\ clock.frames = k => <>(clock.frames = (k + 1) % LoopFrames))

\* a frame has run after a frame that threw, and has queued the next
C36_Witness ==
  /\ lastOp.op = "animate" /\ lastOp.repeat /\ lastOp.threw
  /\ rafPending = 1

-----------------------------------------------------------------------------
(* Temporary overrides and their expiry *)

\* the key of the catalog mood a reference points at, "" for any other value
CatalogKeyOf(ref) ==
  IF "key" \in DOMAIN ref /\ ref.key \in CatalogNames THEN ref.key ELSE ""

\* window.moodDebug.tempOverride(customConfig, durationMs); lastOp.name is
\* the catalog mood that is active when the call is made
OverrideApplied(customConfig) ==
  \E rnd \in {LowStream(ParticleDraws(OverrideConfig(World, customConfig)))} :
    DebugOp(tempOverride(World, customConfig, rnd), "tempOverride",
            CatalogKeyOf(currentMood), OverrideConfig(World, customConfig))

\* durationMs after tempOverride timer t runs its callback
OverrideExpired(t) ==
  /\ t \in debug.timers
  /\ \E rnd \in {LowStream(ParticleDraws(Lookup(debug.originalMood)))} :
       DebugOp(overrideExpired(World, t, rnd), "overrideExpired",
               debug.originalMood, Lookup(debug.originalMood))

\* a 'mood:change' event, as the RFID selection of a song emits it
MoodChangeEvent(moodName) ==
  \E rnd \in {LowStream(ParticleDraws(Lookup(moodName)))} :
    DebugOp(emit_moodChange(World, moodName, rnd), "mood:change", moodName,
            Lookup(moodName))

\* window.moodDebug.setMood(moodName)
MoodSet(moodName) ==
  \E rnd \in {LowStream(ParticleDraws(Lookup(moodName)))} :
    DebugOp(setMood(World, moodName, rnd), "setMood", moodName, Lookup(moodName))

\* window.moodDebug.resetToOriginal()
ResetTyped ==
  \E rnd \in {LowStream(ParticleDraws(Lookup(debug.originalMood)))} :
    DebugOp(resetToOriginal(World, rnd), "resetToOriginal", debug.originalMood,
            Lookup(debug.originalMood))

OverrideNext ==
  \/ \E customConfig \in CustomConfigs : OverrideApplied(customConfig)
  \/ \E t \in 1 .. MaxOps + 1 : OverrideExpired(t)
  \/ \E moodName \in {"Krieg", "Kooperativ"} : MoodChangeEvent(moodName)
  \/ \E moodName \in {"Krieg", "Kooperativ"} : MoodSet(moodName)
  \/ ResetTyped

OverrideSpec == DebugInit /\ [][OverrideNext]_vars

====
